---------------------------- MODULE Spec2Model ----------------------------
(***************************************************************************)
(* Perception-to-navigation control subsystem of walkie-agent.             *)
(*                                                                         *)
(* Part I   BackgroundObjectDetector (src/src/vision/background_detector.py)*)
(*          with the Spatial Object Store (src/src/db/walkie_db.py).       *)
(* Part II  follow_person and go_to_raised_hand                            *)
(*          (src/src/agents/walkie_agent/tools.py), with their helper      *)
(*          functions applied on their own.                                *)
(* Part III VRTeleopHandler (src/src/utils/teleop_handler.py).              *)
(* Part IV  BackgroundVisionMonitor (src/src/vision/background_monitor.py).*)
(*                                                                         *)
(* Units: positions are integer grid points, one grid step = 0.5 m, so the *)
(* default dedup_radius of 1.0 m is 2 grid steps.  Distances are compared  *)
(* through their squares: for non-negative d and r, sqrt(d2) < r is the    *)
(* same as d2 < r*r, and math.sqrt is exact on the perfect squares used.   *)
(* Confidences are integer percent (0.4 = 40).                             *)
(***************************************************************************)
EXTENDS Integers, Sequences, FiniteSets, TLC

\* ------------------------------------------------------------------------
\* Bounds of the model
\* ------------------------------------------------------------------------
MaxContexts == 2    \* loop contexts (threads) ever spawned by start()
MaxCycles   == 2    \* detection cycles ever begun (all contexts together)
MaxDets     == 2    \* detections returned by one detect_objects call
MaxPoses    == 1    \* poses returned by one estimate_poses call
MaxSessions == 2    \* transport sessions ever opened by VRTeleopHandler.start()
MaxCalls    == 4    \* calls of VRTeleopHandler.start() and stop() together
MaxMsgs     == 2    \* controller messages delivered to the teleop listener
MaxMonitorCycles == 3  \* inference cycles ever begun by BackgroundVisionMonitor

\* ------------------------------------------------------------------------
\* Program constants
\* ------------------------------------------------------------------------
CONFIDENCE_THRESHOLD == 40   \* background_detector.py:26  (0.4)
DedupRadius          == 2    \* background_detector.py:45  (1.0 m = 2 steps)
FOLLOW_STOP_DISTANCE == 70   \* tools.py:126  (0.7 m in centimetres)
APPROACH_DISTANCE    == 70   \* tools.py:127  (0.7 m in centimetres)
MIN_CONF             == 50   \* tools.py:240  (min_conf = 0.5)
MONITOR_CONF_THRESHOLD == 40 \* background_monitor.py:53  (confidence_threshold = 0.4)

\* Python None for the three optional fields
NoClass == 0 - 1     \* class_id is None
NoConf  == 0 - 1     \* confidence is None
NoId    == 0         \* object_id is None (real ids are 1, 2, ...)
NoPos   == <<>>      \* position is None
NoThread == 0        \* self._thread is None

ClassIds   == {1}
ConfValues == {NoConf, 39, 40}
\* grid points at distances 1 (2-3), 2 (0-2) and 3 (0-3) from each other
PosSet     == {<<0, 0, 0>>, <<2, 0, 0>>, <<3, 0, 0>>}

Detection == [class_id : ClassIds \cup {NoClass}, confidence : ConfValues]

SeqsUpTo(S, n) == UNION {[1..k -> S] : k \in 0..n}

VARIABLES
    store,         \* objects collection: sequence of records in insertion order
    nextId,        \* source of fresh object ids (uuid4)
    visible,       \* self._visible_objects
    stop_event,    \* self._stop_event
    thread,        \* self._thread (a context id, or NoThread)
    ctx,           \* the loop contexts: program counter and locals of _loop/_run_cycle
    ctl,           \* the caller of start()/stop(): "idle", or "joining" inside stop()
    joinOutcome,   \* how the last stop() that waited ended: "joined" or "abandoned";
                   \* "none" before it and after the next start() that spawns
    lastStartNoop, \* the last start()/stop() call was a start() that found the detector running
    cycles,        \* number of cycles begun
    lastSolo,      \* number of the last cycle that published with no other cycle overlapping it
    readVal,       \* value returned by the last visible_objects read
    run,           \* the last _run_cycle taken as a whole: what its calls returned,
                   \* and the store and snapshot it started from
    \* --- follow_person ---
    f_pc,          \* position of the calling context inside follow_person
    f_stop,        \* stop_event of the session
    l_pc,          \* position of the listener context (_listen_for_stop)
    text,          \* the listener's last transcript
    f_lastCmd,     \* last navigation command the call issued: "none", "go_to", "stop"
    f_everGoTo,    \* the call has issued a go_to
    f_gotosAfterSet, \* go_to commands issued since stop_event was set
    f_cause,       \* the call of the tick that raised: "none", "capture", "detect_objects",
                   \* "locate", "go_to" or "stop"
    f_setBy,       \* who set stop_event first: "none", "listener" or "handler"
    f_tick,        \* navigation commands issued in the current tick, in order
    f_loc,         \* target_pos and curr_pos of the current tick (NoLoc before they are read)
    \* --- go_to_raised_hand ---
    a_pc,          \* position of the calling context inside go_to_raised_hand
    a_deadline,    \* time.time() - start_time has exceeded RAISED_HAND_TIMEOUT
    a_lastCmd,     \* last navigation command the call issued
    a_everGoTo,    \* the call has issued a go_to
    a_cause,       \* the call of the tick that raised: "none", "capture", "estimate_poses",
                   \* "locate", "go_to" or "stop"
    a_everRaised,  \* some tick of the call found a pose with a raised hand
    a_loc,         \* target_pos and curr_pos of the current tick (NoLoc before they are read)
    a_tick,        \* navigation commands issued in the current tick, in order
    \* --- helper functions of the navigation tools, applied to one input ---
    calc,          \* the last application: its operation, input and result
    \* --- VRTeleopHandler ---
    t_running,     \* self.is_running
    t_session,     \* self.session (a session id, or NoSession)
    t_sub,         \* self.sub (the id of the session it was declared on, or NoSub)
    t_initial,     \* self._initial_poses: group -> reference pose
    t_open,        \* transport: the sessions that are open
    t_subs,        \* transport: the subscribers that are registered
    t_lpc,         \* the listener callback: "idle", or "handling" a message
    t_msg,         \* the message the listener is handling or handled last
    t_ik,          \* number of go_to_pose_quaternion commands issued
    t_lastIk,      \* group_name of the last command issued ("none" before)
    t_calls,       \* number of start()/stop() calls made
    t_call,        \* the last start()/stop() call: what it found, did and returned
    t_delivered,   \* number of messages delivered to the listener
    t_outcome,     \* how the listener's last run past its is_running test ended: "none",
                   \* "ik", "ik_failed", "dropped" or "error"
    t_faults,      \* number of exceptions the listener has caught
    \* --- BackgroundVisionMonitor ---
    m_mode,        \* self._mode ("unbuilt" before the constructor ran)
    m_stop,        \* self._stop_event
    m_thread,      \* self._thread (a context id, or NoThread)
    m_ctl,         \* the caller of start()/stop(): "idle", or "joining" inside stop()
    m_ctx,         \* the loop contexts: position in _loop, the local result, and the
                   \* number of cycles of the context that raised
    m_lock,        \* self._lock: 0 when free, else the context that holds it
    m_latest,      \* self._latest_result (its lines; <<>> is the empty string)
    m_updated,     \* self._last_updated (NoTime is None)
    m_now,         \* the last value datetime.now() returned
    m_cycles,      \* number of cycles begun
    m_read         \* the last read of latest_result or last_updated: property and value

dbVars   == <<store, nextId>>
ctlVars  == <<stop_event, thread, ctl, joinOutcome, lastStartNoop>>
detVars  == <<store, nextId, visible, stop_event, thread, ctx, ctl, joinOutcome,
              lastStartNoop, cycles, lastSolo, readVal, run>>

followVars   == <<f_pc, f_stop, l_pc, text, f_lastCmd, f_everGoTo, f_gotosAfterSet,
                  f_cause, f_setBy, f_tick, f_loc>>
approachVars == <<a_pc, a_deadline, a_lastCmd, a_everGoTo, a_cause, a_everRaised,
                  a_loc, a_tick>>
navVars      == <<followVars, approachVars>>

calcVars     == <<calc>>
teleopVars   == <<t_running, t_session, t_sub, t_initial, t_open, t_subs, t_lpc, t_msg,
                  t_ik, t_lastIk, t_calls, t_call, t_delivered, t_outcome, t_faults>>
monitorVars  == <<m_mode, m_stop, m_thread, m_ctl, m_ctx, m_lock, m_latest, m_updated,
                  m_now, m_cycles, m_read>>
sideVars     == <<calcVars, teleopVars, monitorVars>>

vars == <<detVars, navVars, sideVars>>

Contexts == 1..MaxContexts

\* ------------------------------------------------------------------------
\* Spatial Object Store
\* ------------------------------------------------------------------------
Sq(a) == a * a

\* (position[0]-ox)**2 + (position[1]-oy)**2 + (position[2]-oz)**2
DistSq(p, q) == Sq(p[1] - q[1]) + Sq(p[2] - q[2]) + Sq(p[3] - q[3])

\* dist < radius
WithinRadius(d2, radius) == d2 < Sq(radius)

\* The scan of find_nearby_object over the records with the requested
\* class_id, in collection order, from record k on; best is the index of the
\* best record so far (0 for none) and bestD2 its squared distance.
RECURSIVE ScanNearby(_, _, _, _, _, _, _)
ScanNearby(st, cls, pos, radius, k, best, bestD2) ==
    IF k > Len(st) THEN best
    ELSE IF st[k].class_id = cls
            /\ WithinRadius(DistSq(pos, st[k].pos), radius)
            /\ (best = 0 \/ DistSq(pos, st[k].pos) < bestD2)
         THEN ScanNearby(st, cls, pos, radius, k + 1, k, DistSq(pos, st[k].pos))
         ELSE ScanNearby(st, cls, pos, radius, k + 1, best, bestD2)

\* a scan that starts at the second record
FindNearbySkipFirst(st, cls, pos, radius) ==
    LET b == ScanNearby(st, cls, pos, radius, 2, 0, 0)
    IN  IF b = 0 THEN NoId ELSE st[b].object_id

\* a lookup whose collection query has no class filter
FindNearbyAnyClass(st, cls, pos, radius) ==
    LET all == [k \in 1..Len(st) |-> [st[k] EXCEPT !.class_id = cls]]
        b   == ScanNearby(all, cls, pos, radius, 1, 0, 0)
    IN  IF b = 0 THEN NoId ELSE st[b].object_id

\* WalkieVectorDB.find_nearby_object: object_id of the closest record, or NoId
FindNearbyObject(st, cls, pos, radius) ==
    LET b == ScanNearby(st, cls, pos, radius, 1, 0, 0)
    IN  IF b = 0 THEN NoId ELSE st[b].object_id

HasId(st, id) == \E k \in 1..Len(st) : st[k].object_id = id

\* an upsert that adds a record whatever the id
UpsertAlwaysAppend(st, rec) == Append(st, rec)

\* WalkieVectorDB.upsert_object: replace the record with this id in place, or
\* add it at the end
UpsertObject(st, rec) ==
    IF HasId(st, rec.object_id)
    THEN [k \in 1..Len(st) |-> IF st[k].object_id = rec.object_id THEN rec ELSE st[k]]
    ELSE Append(st, rec)

\* ------------------------------------------------------------------------
\* BackgroundObjectDetector
\* ------------------------------------------------------------------------
\* property running
Running == thread # NoThread /\ ctx[thread].pc # "done"

\* a filter that drops a confidence equal to the threshold
RECURSIVE FilterSeqStrict(_, _)
FilterSeqStrict(s, threshold) ==
    IF s = <<>> THEN <<>>
    ELSE IF Head(s).confidence # NoConf /\ Head(s).confidence > threshold
         THEN <<Head(s)>> \o FilterSeqStrict(Tail(s), threshold)
         ELSE FilterSeqStrict(Tail(s), threshold)

RECURSIVE FilterSeq(_, _)
FilterSeq(s, threshold) ==
    IF s = <<>> THEN <<>>
    ELSE IF Head(s).confidence # NoConf /\ Head(s).confidence >= threshold
         THEN <<Head(s)>> \o FilterSeq(Tail(s), threshold)
         ELSE FilterSeq(Tail(s), threshold)

\* one dict of the visible-objects list; cyc, n and idx record which cycle
\* built the entry, how many detections that cycle kept and the entry's place
VisibleEntry(obj, position, object_id, c, n, k) ==
    [class_id |-> obj.class_id, confidence |-> obj.confidence,
     position |-> position, object_id |-> object_id, cyc |-> c, n |-> n, idx |-> k]

\* a list for the timed-out localization that reports the origin as position
OriginPositionList(filtered, c) ==
    [k \in 1..Len(filtered) |->
        VisibleEntry(filtered[k], <<0, 0, 0>>, NoId, c, Len(filtered), k)]

\* the list published when bboxes_to_positions timed out
NoPositionList(filtered, c) ==
    [k \in 1..Len(filtered) |->
        VisibleEntry(filtered[k], NoPos, NoId, c, Len(filtered), k)]

\* positions bboxes_to_positions may return for a detection (a class-less
\* detection is never looked up by position, one point stands for all)
LocatedAt(obj) == IF obj.class_id = NoClass THEN {<<0, 0, 0>>} ELSE PosSet

\* the context is inside _run_cycle, past the capture
InCycle(pc) == pc \in {"detect", "find", "upsert", "publish"}

FreshCtx == [pc |-> "unborn", filtered |-> <<>>, pos |-> NoPos, i |-> 0,
             fv |-> <<>>, oid |-> NoId, cyc |-> 0, solo |-> FALSE, created |-> FALSE]

\* the cycle ends: its locals are dropped, _stop_event.wait(timeout=interval)
\* returns (by the event or by time) and the loop is at its condition again
EndCycle(c) == [c EXCEPT !.pc = "check", !.filtered = <<>>, !.pos = NoPos, !.i = 0,
                          !.fv = <<>>, !.oid = NoId, !.solo = FALSE, !.created = FALSE]

\* where a cycle can raise while it processes the located detections: in
\* embed_image or find_nearby_object of detection `at`, or in its
\* upsert_object (at = 0: nowhere)
NoFault == [at |-> 0, in |-> "none"]

\* no cycle taken as a whole yet
NoRun == [in |-> [stage |-> "none", detected |-> <<>>, positions |-> <<>>, fault |-> NoFault],
          store0 |-> <<>>, visible0 |-> <<>>]

DetInit ==
    /\ store = <<>>
    /\ nextId = 1
    /\ visible = <<>>
    /\ stop_event = FALSE
    /\ thread = NoThread
    /\ ctx = [t \in Contexts |-> FreshCtx]
    /\ ctl = "idle"
    /\ joinOutcome = "none"
    /\ lastStartNoop = FALSE
    /\ cycles = 0
    /\ lastSolo = 0
    /\ readVal = <<>>
    /\ run = NoRun

\* start() past its guard: clear the event and spawn a context
StartSpawn ==
    /\ \E t \in Contexts :
          /\ ctx[t].pc = "unborn"
          /\ \A u \in Contexts : u < t => ctx[u].pc # "unborn"
          /\ ctx' = [ctx EXCEPT ![t].pc = "check"]
          /\ thread' = t
    /\ stop_event' = FALSE
    /\ joinOutcome' = "none"
    /\ lastStartNoop' = FALSE

\* start() without the guard
StartUnguarded ==
    /\ ctl = "idle"
    /\ StartSpawn
    /\ UNCHANGED <<dbVars, visible, ctl, cycles, lastSolo, readVal>>

\* start(): returns at once while running
Start ==
    /\ ctl = "idle"
    /\ IF Running
       THEN /\ lastStartNoop' = TRUE
            /\ UNCHANGED <<stop_event, thread, ctx, joinOutcome>>
       ELSE StartSpawn
    /\ UNCHANGED <<dbVars, visible, ctl, cycles, lastSolo, readVal>>

\* stop(), first half: return at once when not running, else set the event
\* and begin the join
StopBegin ==
    /\ ctl = "idle"
    /\ IF Running
       THEN /\ stop_event' = TRUE
            /\ ctl' = "joining"
       ELSE UNCHANGED <<stop_event, ctl>>
    /\ lastStartNoop' = FALSE
    /\ UNCHANGED <<dbVars, visible, thread, ctx, joinOutcome, cycles, lastSolo, readVal>>

\* stop(), second half: join(timeout) returns because the context exited
StopJoined ==
    /\ ctl = "joining"
    /\ ctx[thread].pc = "done"
    /\ thread' = NoThread
    /\ ctl' = "idle"
    /\ joinOutcome' = "joined"
    /\ UNCHANGED <<dbVars, visible, stop_event, ctx, lastStartNoop, cycles, lastSolo,
                   readVal>>

\* stop(), second half: join(timeout) returns because interval + 2 s elapsed
\* while the context is still inside _run_cycle, in capture or later (the
\* wait between cycles ends at once when the event is set); the context is
\* abandoned
StopTimeout ==
    /\ ctl = "joining"
    /\ (ctx[thread].pc = "capture" \/ InCycle(ctx[thread].pc))
    /\ thread' = NoThread
    /\ ctl' = "idle"
    /\ joinOutcome' = "abandoned"
    /\ UNCHANGED <<dbVars, visible, stop_event, ctx, lastStartNoop, cycles, lastSolo,
                   readVal>>

\* visible_objects: copy of the list, taken under the lock
Read ==
    /\ readVal' = visible
    /\ UNCHANGED <<dbVars, visible, ctlVars, ctx, cycles, lastSolo>>

\* _loop: while not self._stop_event.is_set()
LoopCheck(t) ==
    /\ ctx[t].pc = "check"
    /\ ctx' = [ctx EXCEPT ![t].pc = IF stop_event THEN "done" ELSE "capture"]
    /\ UNCHANGED <<dbVars, visible, ctlVars, cycles, lastSolo, readVal>>

\* the context after a capture that returned an image (ok) or raised
Captured(t, ok) ==
    [u \in Contexts |->
        IF u = t
        THEN IF ok
             THEN [ctx[t] EXCEPT !.pc = "detect", !.cyc = cycles + 1,
                      !.solo = \A w \in Contexts \ {t} : ~InCycle(ctx[w].pc)]
             ELSE EndCycle(ctx[t])
        ELSE IF ok /\ InCycle(ctx[u].pc)
             THEN [ctx[u] EXCEPT !.solo = FALSE]
             ELSE ctx[u]]

\* a capture whose failure empties the snapshot
CaptureClearing(t) ==
    /\ ctx[t].pc = "capture"
    /\ cycles < MaxCycles
    /\ cycles' = cycles + 1
    /\ \E ok \in BOOLEAN :
          /\ ctx' = Captured(t, ok)
          /\ visible' = IF ok THEN visible ELSE <<>>
    /\ UNCHANGED <<dbVars, ctlVars, lastSolo, readVal>>

\* a capture whose exception leaves _loop
CaptureFatal(t) ==
    /\ ctx[t].pc = "capture"
    /\ cycles < MaxCycles
    /\ cycles' = cycles + 1
    /\ \E ok \in BOOLEAN :
          ctx' = IF ok THEN Captured(t, ok) ELSE [ctx EXCEPT ![t].pc = "done"]
    /\ UNCHANGED <<dbVars, visible, ctlVars, lastSolo, readVal>>

\* _run_cycle step 1: capture; an exception ends the cycle
Capture(t) ==
    /\ ctx[t].pc = "capture"
    /\ cycles < MaxCycles
    /\ cycles' = cycles + 1
    /\ \E ok \in BOOLEAN :
          ctx' = [u \in Contexts |->
                    IF u = t
                    THEN IF ok
                         THEN [ctx[t] EXCEPT !.pc = "detect", !.cyc = cycles + 1,
                                  !.solo = \A w \in Contexts \ {t} : ~InCycle(ctx[w].pc)]
                         ELSE EndCycle(ctx[t])
                    ELSE IF ok /\ InCycle(ctx[u].pc)
                         THEN [ctx[u] EXCEPT !.solo = FALSE]
                         ELSE ctx[u]]
    /\ UNCHANGED <<dbVars, visible, ctlVars, lastSolo, readVal>>

\* _run_cycle steps 2-4: detect, filter by confidence, localize.  Nothing
\* detected or nothing left replaces the snapshot by the empty list;
\* bboxes_to_positions returning None publishes the list without positions
\* and skips the store; an exception in either call ends the cycle.
Detect(t) ==
    /\ ctx[t].pc = "detect"
    /\ \/ /\ ctx' = [ctx EXCEPT ![t] = EndCycle(ctx[t])]
          /\ UNCHANGED visible
       \/ \E detected \in SeqsUpTo(Detection, MaxDets), located \in BOOLEAN :
             LET filtered == FilterSeq(detected, CONFIDENCE_THRESHOLD)
             IN  IF detected = <<>> \/ filtered = <<>>
                 THEN /\ visible' = <<>>
                      /\ ctx' = [ctx EXCEPT ![t] = EndCycle(ctx[t])]
                 ELSE IF ~located
                 THEN /\ visible' = NoPositionList(filtered, ctx[t].cyc)
                      /\ ctx' = [ctx EXCEPT ![t] = EndCycle(ctx[t])]
                 ELSE /\ ctx' = [ctx EXCEPT ![t].pc = "find", ![t].filtered = filtered,
                                            ![t].i = 1, ![t].fv = <<>>]
                      /\ UNCHANGED visible
    /\ UNCHANGED <<dbVars, ctlVars, cycles, lastSolo, readVal>>

\* the context after the dedup decision for detection i at pos: the id found
\* by find_nearby_object, else a fresh one
Decided(t, pos, found) ==
    [ctx EXCEPT ![t].pc = "upsert", ![t].pos = pos,
                ![t].oid = IF found = NoId THEN nextId ELSE found,
                ![t].created = IF found = NoId THEN TRUE ELSE @]

\* a lookup made for every detection, with or without a class_id
LookupUnguarded(obj, pos) == FindNearbyObject(store, obj.class_id, pos, DedupRadius)

\* find_nearby_object is asked only for a detection that has a class_id
Lookup(obj, pos) ==
    IF obj.class_id # NoClass
    THEN FindNearbyObject(store, obj.class_id, pos, DedupRadius)
    ELSE NoId

\* dedup decision that also puts the entry into the shared list at once
FindPublishing(t) ==
    /\ ctx[t].pc = "find"
    /\ \E pos \in LocatedAt(ctx[t].filtered[ctx[t].i]) :
          LET obj   == ctx[t].filtered[ctx[t].i]
              found == Lookup(obj, pos)
          IN  /\ ctx' = Decided(t, pos, found)
              /\ nextId' = IF found = NoId THEN nextId + 1 ELSE nextId
              /\ visible' = <<VisibleEntry(obj, pos, ctx'[t].oid, ctx[t].cyc, 1, 1)>>
    /\ UNCHANGED <<store, ctlVars, cycles, lastSolo, readVal>>

\* _run_cycle step 6, first half for detection i: embed (may raise), look up
\* a nearby record of the class, else draw a fresh id.  pos is positions[i],
\* the value bboxes_to_positions returned for this detection.
Find(t) ==
    /\ ctx[t].pc = "find"
    /\ \/ /\ ctx' = [ctx EXCEPT ![t] = EndCycle(ctx[t])]
          /\ UNCHANGED nextId
       \/ \E pos \in LocatedAt(ctx[t].filtered[ctx[t].i]) :
             LET found == Lookup(ctx[t].filtered[ctx[t].i], pos)
             IN  /\ ctx' = Decided(t, pos, found)
                 /\ nextId' = IF found = NoId THEN nextId + 1 ELSE nextId
    /\ UNCHANGED <<store, visible, ctlVars, cycles, lastSolo, readVal>>

\* the record upserted for detection i: its id, class and position (the
\* embedding, heading, scene_id and class_name it also carries are written
\* along and read by no step of the detector)
RecordOf(t) ==
    [object_id |-> ctx[t].oid, class_id |-> ctx[t].filtered[ctx[t].i].class_id,
     pos |-> ctx[t].pos]

\* the context after frame_visible.append for detection i
Appended(t) ==
    LET n == Len(ctx[t].filtered)
    IN  [ctx EXCEPT
           ![t].fv = Append(@, VisibleEntry(ctx[t].filtered[ctx[t].i], ctx[t].pos,
                                            ctx[t].oid, ctx[t].cyc, n, ctx[t].i)),
           ![t].i = @ + 1,
           ![t].oid = NoId,
           ![t].pos = NoPos,
           ![t].pc = IF ctx[t].i = n THEN "publish" ELSE "find"]

\* upsert that appends to the shared list instead of a local one
UpsertInPlace(t) ==
    /\ ctx[t].pc = "upsert"
    /\ store' = UpsertObject(store, RecordOf(t))
    /\ ctx' = Appended(t)
    /\ visible' = ctx'[t].fv
    /\ UNCHANGED <<nextId, ctlVars, cycles, lastSolo, readVal>>

\* _run_cycle step 6, second half for detection i: upsert (may raise) and
\* append to the local frame_visible
Upsert(t) ==
    /\ ctx[t].pc = "upsert"
    /\ \/ /\ ctx' = [ctx EXCEPT ![t] = EndCycle(ctx[t])]
          /\ UNCHANGED store
       \/ /\ store' = UpsertObject(store, RecordOf(t))
          /\ ctx' = Appended(t)
    /\ UNCHANGED <<nextId, visible, ctlVars, cycles, lastSolo, readVal>>

\* _run_cycle step 7: replace the snapshot under the lock
Publish(t) ==
    /\ ctx[t].pc = "publish"
    /\ visible' = ctx[t].fv
    /\ lastSolo' = IF ctx[t].solo THEN ctx[t].cyc ELSE 0
    /\ ctx' = [ctx EXCEPT ![t] = EndCycle(ctx[t])]
    /\ UNCHANGED <<dbVars, ctlVars, cycles, readVal>>

DetNext ==
    \/ Start
    \/ StopBegin
    \/ StopJoined
    \/ StopTimeout
    \/ \E t \in Contexts : LoopCheck(t)
    \/ \E t \in Contexts : Capture(t)
    \/ \E t \in Contexts : Detect(t)
    \/ \E t \in Contexts : Find(t)
    \/ \E t \in Contexts : Upsert(t)
    \/ \E t \in Contexts : Publish(t)

\* ------------------------------------------------------------------------
\* _run_cycle as a whole: one cycle of a single loop context, from the store
\* and snapshot it finds to the store and snapshot it leaves
\* ------------------------------------------------------------------------
\* positions bboxes_to_positions may return: three points 0.71 m apart on a
\* line and one point away from it.  No two of them are exactly the dedup
\* radius apart
CyclePoints == {<<0, 0, 0>>, <<1, 1, 0>>, <<2, 2, 0>>, <<3, 0, 0>>}

CycleLocatedAt(obj) == IF obj.class_id = NoClass THEN {<<0, 0, 0>>} ELSE CyclePoints

\* the lists bboxes_to_positions may return for the filtered detections
PositionLists(filtered) ==
    {p \in [1..Len(filtered) -> CyclePoints] :
        \A k \in 1..Len(filtered) : p[k] \in CycleLocatedAt(filtered[k])}

FaultsFor(filtered) ==
    {NoFault} \cup {[at |-> i, in |-> w] : i \in 1..Len(filtered), w \in {"embed", "upsert"}}

\* what the calls of one cycle return.  stage is how far the cycle gets:
\* capture or detect_objects raised, detect_objects returned and nothing
\* passed the filter, bboxes_to_positions raised or returned None, or it
\* returned the positions
InputsFor(detected) ==
    LET filtered == FilterSeq(detected, CONFIDENCE_THRESHOLD)
    IN  IF filtered = <<>>
        THEN {[stage |-> "detected", detected |-> detected, positions |-> <<>>,
               fault |-> NoFault]}
        ELSE {[stage |-> s, detected |-> detected, positions |-> <<>>, fault |-> NoFault] :
                 s \in {"locate_raised", "locate_none"}}
             \cup {[stage |-> "located", detected |-> detected, positions |-> p, fault |-> x] :
                      p \in PositionLists(filtered), x \in FaultsFor(filtered)}

\* what detect_objects may return in a whole cycle: detections with or
\* without a class, with no confidence, one below the threshold, one equal
\* to it and one above it
CycleDetection == [class_id : ClassIds \cup {NoClass}, confidence : ConfValues \cup {90}]

CycleInputs ==
    {[stage |-> s, detected |-> <<>>, positions |-> <<>>, fault |-> NoFault] :
        s \in {"capture_raised", "detect_raised"}}
    \cup UNION {InputsFor(d) : d \in SeqsUpTo(CycleDetection, MaxDets)}

\* step 6, from detection i on: for obj, position in zip(filtered, positions):
\* embed, find_nearby_object, fresh id if none, upsert_object, append
RECURSIVE ProcessDetections(_, _, _, _, _, _, _, _)
ProcessDetections(filtered, positions, fault, c, i, st, nid, fv) ==
    IF i > Len(filtered)
    THEN [store |-> st, nextId |-> nid, frame_visible |-> fv, raised |-> FALSE]
    ELSE LET obj   == filtered[i]
             pos   == positions[i]
             found == IF obj.class_id # NoClass
                      THEN FindNearbyObject(st, obj.class_id, pos, DedupRadius)
                      ELSE NoId
             oid   == IF found = NoId THEN nid ELSE found
             nid2  == IF found = NoId THEN nid + 1 ELSE nid
             rec   == [object_id |-> oid, class_id |-> obj.class_id, pos |-> pos]
         IN  IF fault = [at |-> i, in |-> "embed"]
             THEN [store |-> st, nextId |-> nid, frame_visible |-> fv, raised |-> TRUE]
             ELSE IF fault = [at |-> i, in |-> "upsert"]
             THEN [store |-> st, nextId |-> nid2, frame_visible |-> fv, raised |-> TRUE]
             ELSE ProcessDetections(filtered, positions, fault, c, i + 1,
                                    UpsertObject(st, rec), nid2,
                                    Append(fv, VisibleEntry(obj, pos, oid, c,
                                                            Len(filtered), i)))

\* _run_cycle, cycle number c, on store st and snapshot vis
RunCycle(st, nid, vis, c, in) ==
    LET filtered == FilterSeq(in.detected, CONFIDENCE_THRESHOLD)
        same     == [store |-> st, nextId |-> nid, visible |-> vis]
    IN  IF in.stage \in {"capture_raised", "detect_raised"} THEN same
        ELSE IF in.detected = <<>> \/ filtered = <<>> THEN [same EXCEPT !.visible = <<>>]
        ELSE IF in.stage = "locate_raised" THEN same
        ELSE IF in.stage = "locate_none"
        THEN [same EXCEPT !.visible = NoPositionList(filtered, c)]
        ELSE LET r == ProcessDetections(filtered, in.positions, in.fault, c, 1, st, nid, <<>>)
             IN  [store |-> r.store, nextId |-> r.nextId,
                  visible |-> IF r.raised THEN vis ELSE r.frame_visible]

\* one iteration of _loop with nothing else running beside it
CycleStep ==
    /\ cycles < MaxCycles
    /\ cycles' = cycles + 1
    /\ \E in \in CycleInputs :
          LET out == RunCycle(store, nextId, visible, cycles + 1, in)
          IN  /\ store' = out.store
              /\ nextId' = out.nextId
              /\ visible' = out.visible
              /\ run' = [in |-> in, store0 |-> store, visible0 |-> visible]
    /\ UNCHANGED <<ctlVars, ctx, lastSolo, readVal>>

\* ------------------------------------------------------------------------
\* Helpers of the navigation tools
\* ------------------------------------------------------------------------
\* Planar positions of the navigation tools are integer centimetres
\* (0.7 m = 70); keypoint confidences are integer percent (0.5 = 50) and
\* keypoint y is in pixels.  Headings are radians times 10000, rounded.

\* the greatest k in lo..hi with k*k <= n, by bisection
RECURSIVE SqrtBetween(_, _, _)
SqrtBetween(n, lo, hi) ==
    IF lo >= hi
    THEN lo
    ELSE LET mid == (lo + hi + 1) \div 2
         IN  IF mid <= n \div mid      \* mid*mid <= n, without the large product
             THEN SqrtBetween(n, mid, hi)
             ELSE SqrtBetween(n, lo, mid - 1)

\* math.sqrt, exact on the perfect squares used
Sqrt(n) == SqrtBetween(n, 0, n)

\* dx = rx - tx; dy = ry - ty; dist = math.sqrt(dx**2 + dy**2)
PlanarDist(t, r) == Sqrt(Sq(r[1] - t[1]) + Sq(r[2] - t[2]))

\* a keypoint that plays no part in the raised-hand test
RestKeypoint == [confidence |-> 0, y |-> 0]

KeypointValues == [confidence : {49, 50, 90}, y : {100, 200, 250}]

\* person.keypoints of 17 entries; Python index i is position i + 1
PoseOf(ls, rs, lw, rw) ==
    [k \in 1..17 |->
        CASE k = 6  -> ls
          [] k = 7  -> rs
          [] k = 10 -> lw
          [] k = 11 -> rw
          [] OTHER  -> RestKeypoint]

\* a pose whose provider returned fewer than 17 keypoints
ShortPose == [k \in 1..16 |-> [confidence |-> 90, y |-> IF k >= 10 THEN 100 ELSE 200]]

Poses ==
    {PoseOf(ls, rs, lw, rw) : ls \in KeypointValues, rs \in KeypointValues,
                              lw \in KeypointValues, rw \in KeypointValues}
        \cup {ShortPose}

\* a raised-hand test that looks at the left arm only
HasRaisedHandLeftOnly(kpts) ==
    IF Len(kpts) < 17
    THEN FALSE
    ELSE /\ kpts[10].confidence >= MIN_CONF
         /\ kpts[6].confidence >= MIN_CONF
         /\ kpts[10].y < kpts[6].y

\* _has_raised_hand(person, min_conf=0.5)
HasRaisedHand(kpts) ==
    IF Len(kpts) < 17
    THEN FALSE
    ELSE LET left  == /\ kpts[10].confidence >= MIN_CONF
                      /\ kpts[6].confidence >= MIN_CONF
                      /\ kpts[10].y < kpts[6].y
             right == /\ kpts[11].confidence >= MIN_CONF
                      /\ kpts[7].confidence >= MIN_CONF
                      /\ kpts[11].y < kpts[7].y
         IN  left \/ right

\* the poses one estimate_poses call may return in the approach loop: one
\* with a raised left hand, one with both wrists below the shoulders, one
\* with too few keypoints
TickPoses ==
    { PoseOf([confidence |-> 90, y |-> 200], [confidence |-> 90, y |-> 200],
             [confidence |-> 90, y |-> 100], [confidence |-> 90, y |-> 250]),
      PoseOf([confidence |-> 90, y |-> 200], [confidence |-> 90, y |-> 200],
             [confidence |-> 90, y |-> 250], [confidence |-> 90, y |-> 250]),
      ShortPose }

\* target_pos and curr_pos not read yet in this tick
NoLoc == <<>>

\* no goal: the command is a stop, or the tick issued no go_to
NoGoal == <<>>

\* pi and pi/2 in 1/10000 radian
PI      == 31416
HALF_PI == 15708

\* atan(ay / ax) for ay, ax >= 0 on the directions used: the axes and the
\* 3-4-5 directions (atan(4/3) = 0.9273, atan(3/4) = 0.6435)
BaseAngle(ay, ax) ==
    CASE ay = 0          -> 0
      [] ax = 0          -> HALF_PI
      [] 3 * ay = 4 * ax -> 9273
      [] 4 * ay = 3 * ax -> 6435

Abs(a) == IF a < 0 THEN 0 - a ELSE a

\* math.atan2(y, x), result in (-pi, pi]
Atan2(y, x) ==
    LET b == BaseAngle(Abs(y), Abs(x))
    IN  IF x >= 0
        THEN (IF y >= 0 THEN b ELSE 0 - b)
        ELSE (IF y >= 0 THEN PI - b ELSE b - PI)

\* a heading computed as atan2(dy, dx): from the target toward the robot
AngleFromPerson(dx, dy) == Atan2(dy, dx)

\* angle_to_person = math.atan2(-dy, -dx).  dx and dy are floats: for
\* dy = 0.0 the first argument is -0.0, and atan2(-0.0, x) is -pi for x < 0
AngleToPerson(dx, dy) ==
    IF dy = 0 /\ dx > 0 THEN 0 - PI ELSE Atan2(0 - dy, 0 - dx)

\* ratio = standoff / dist; goal = target + (dx, dy) * ratio; the heading
\* faces the person.  Exact on the inputs used, where dist divides
\* dx * standoff and dy * standoff
GoalOffset(t, r, standoff) ==
    LET dx   == r[1] - t[1]
        dy   == r[2] - t[2]
        dist == PlanarDist(t, r)
    IN  [x       |-> t[1] + (dx * standoff) \div dist,
         y       |-> t[2] + (dy * standoff) \div dist,
         heading |-> AngleToPerson(dx, dy)]

\* follow_person: if dist > 0: go_to(goal_x, goal_y, angle_to_person)
FollowGoal(t, r) ==
    IF PlanarDist(t, r) > 0 THEN GoalOffset(t, r, FOLLOW_STOP_DISTANCE) ELSE NoGoal

\* go_to_raised_hand: no goal when dist <= APPROACH_DISTANCE
ApproachGoal(t, r) ==
    IF PlanarDist(t, r) <= APPROACH_DISTANCE
    THEN NoGoal
    ELSE GoalOffset(t, r, APPROACH_DISTANCE)

\* a navigation command: "stop", or "go_to" with its goal.  Every go_to of
\* the tools passes blocking=False; stop() has no such argument
Cmd(c, goal) == [cmd |-> c, goal |-> goal, blocking |-> FALSE]

\* inputs of the goal computation: robot = target + offset, the offsets of
\* integer length 5, 70 and 500 along the axes and the 3-4-5 directions,
\* and the zero offset
Signs == {0 - 1, 1}

GoalOffsets ==
    {<<0, 0>>}
        \cup {<<s * d, 0>> : s \in Signs, d \in {5, 70, 500}}
        \cup {<<0, s * d>> : s \in Signs, d \in {5, 70, 500}}
        \cup {<<s1 * 3 * k, s2 * 4 * k>> : s1 \in Signs, s2 \in Signs, k \in {1, 14, 100}}
        \cup {<<s1 * 4 * k, s2 * 3 * k>> : s1 \in Signs, s2 \in Signs, k \in {1, 14, 100}}

GoalTargets == {<<0, 0>>, <<500, 0>>, <<0 - 120, 250>>}

\* ------------------------------------------------------------------------
\* The pose helpers of VRTeleopHandler.  A pose is (x, y, z, qx, qy, qz, qw).
\* Quaternions are written with every component doubled, so that the 24 unit
\* quaternions with components in {0, 1, -1} or {1/2, -1/2} are integer
\* tuples; translations are integers
\* ------------------------------------------------------------------------
\* quaternion_multiply(a, b) of walkie_sdk.utils.converters: the Hamilton
\* product in (x, y, z, w) order.  On doubled components the product of the
\* tuples is four times the true product, hence the halving
QuaternionMultiply(a, b) ==
    << (a[4] * b[1] + a[1] * b[4] + a[2] * b[3] - a[3] * b[2]) \div 2,
       (a[4] * b[2] - a[1] * b[3] + a[2] * b[4] + a[3] * b[1]) \div 2,
       (a[4] * b[3] + a[1] * b[2] - a[2] * b[1] + a[3] * b[4]) \div 2,
       (a[4] * b[4] - a[1] * b[1] - a[2] * b[2] - a[3] * b[3]) \div 2 >>

\* _rotate_vector_by_quaternion(v, q): q * (v, 0) * conj(q)
RotateVectorByQuaternion(v, q) ==
    LET q_conj == <<0 - q[1], 0 - q[2], 0 - q[3], q[4]>>
        v_quat == <<2 * v[1], 2 * v[2], 2 * v[3], 0>>
        tmp    == QuaternionMultiply(q, v_quat)
        result == QuaternionMultiply(tmp, q_conj)
    IN  <<result[1] \div 2, result[2] \div 2, result[3] \div 2>>

\* a composition that turns the child's translation by the child's own
\* rotation
ComposeChildFrame(parent_tf, child_tf) ==
    LET pt == SubSeq(parent_tf, 1, 3)
        pq == SubSeq(parent_tf, 4, 7)
        ct == SubSeq(child_tf, 1, 3)
        cq == SubSeq(child_tf, 4, 7)
        rotated == RotateVectorByQuaternion(ct, cq)
        combined_q == QuaternionMultiply(pq, cq)
    IN  <<pt[1] + rotated[1], pt[2] + rotated[2], pt[3] + rotated[3],
          combined_q[1], combined_q[2], combined_q[3], combined_q[4]>>

\* _compose_transforms(parent_tf, child_tf)
ComposeTransforms(parent_tf, child_tf) ==
    LET pt == SubSeq(parent_tf, 1, 3)
        pq == SubSeq(parent_tf, 4, 7)
        ct == SubSeq(child_tf, 1, 3)
        cq == SubSeq(child_tf, 4, 7)
        rotated == RotateVectorByQuaternion(ct, pq)
        combined_q == QuaternionMultiply(pq, cq)
    IN  <<pt[1] + rotated[1], pt[2] + rotated[2], pt[3] + rotated[3],
          combined_q[1], combined_q[2], combined_q[3], combined_q[4]>>

\* unit quaternions (doubled): the identity and its negation, half turns
\* about x and z, and turns of a third about body diagonals
UnitQuats ==
    {<<0, 0, 0, 2>>, <<2, 0, 0, 0>>, <<0, 0, 2, 0>>,
     <<1, 1, 1, 1>>, <<0 - 1, 1, 1, 1>>, <<1, 0 - 1, 1, 1>>, <<1, 1, 0 - 1, 0 - 1>>,
     <<0, 0, 0, 0 - 2>>}

PoseTranslations == {<<0, 0, 0>>, <<1, 2, 3>>, <<0 - 4, 0, 5>>}

TfPoses == {t \o q : t \in PoseTranslations, q \in UnitQuats}

\* ------------------------------------------------------------------------
\* The helper functions applied to one input
\* ------------------------------------------------------------------------
\* no application yet
CalcInit == calc = [op |-> "none"]

CalcHasRaisedHand ==
    /\ calc.op = "none"
    /\ \E p \in Poses :
        calc' = [op |-> "has_raised_hand", kpts |-> p, out |-> HasRaisedHand(p)]

CalcFollowGoal ==
    /\ calc.op = "none"
    /\ \E t \in GoalTargets, o \in GoalOffsets :
        LET r == <<t[1] + o[1], t[2] + o[2]>>
        IN  calc' = [op |-> "follow_goal", t |-> t, r |-> r, out |-> FollowGoal(t, r)]

CalcApproachGoal ==
    /\ calc.op = "none"
    /\ \E t \in GoalTargets, o \in GoalOffsets :
        LET r == <<t[1] + o[1], t[2] + o[2]>>
        IN  calc' = [op |-> "approach_goal", t |-> t, r |-> r, out |-> ApproachGoal(t, r)]

\* collections find_nearby_object is asked about: up to three records of two
\* classes on a line, half a metre apart, with ids in insertion order
LookupClasses == {1, 2}
LookupPoints  == {<<0, 0, 0>>, <<1, 0, 0>>, <<2, 0, 0>>, <<3, 0, 0>>}
LookupRadii   == {2, 3}

LookupStores ==
    UNION {{[k \in 1..n |-> [object_id |-> k, class_id |-> f[k][1], pos |-> f[k][2]]] :
                f \in [1..n -> LookupClasses \X LookupPoints]} : n \in 0..3}

\* find_nearby_object applied to one collection, class, position and radius
CalcFindNearby ==
    /\ calc.op = "none"
    /\ \E st \in LookupStores, cls \in LookupClasses, pos \in LookupPoints,
          radius \in LookupRadii :
        calc' = [op |-> "find_nearby", st |-> st, cls |-> cls, pos |-> pos,
                 radius |-> radius, out |-> FindNearbyObject(st, cls, pos, radius)]

\* class_name of a detection: a name, or NoName for None
NoName == "<none>"
ClassNames == {"person", "Person", "chair", NoName}

\* obj.class_name.lower() on the names used
LowerName(n) == IF n = "Person" THEN "person" ELSE n

\* bbox of a detection as the detector builds it: (x1, y1, x2, y2) in pixels.
\* A large box at the top left corner, a small one there, and a small one
\* far from the corner
Boxes == {<<0, 0, 100, 100>>, <<0, 0, 10, 10>>, <<500, 400, 520, 420>>}

FollowObjects == [class_name : ClassNames, bbox : Boxes]

\* persons = [obj for obj in objects
\*            if obj.class_name and obj.class_name.lower() == "person"]
RECURSIVE PersonsOf(_)
PersonsOf(objects) ==
    IF objects = <<>> THEN <<>>
    ELSE IF Head(objects).class_name # NoName
            /\ LowerName(Head(objects).class_name) = "person"
         THEN <<Head(objects)>> \o PersonsOf(Tail(objects))
         ELSE PersonsOf(Tail(objects))

\* key=lambda obj: obj.bbox[2] * obj.bbox[3]
BoxKey(obj) == obj.bbox[3] * obj.bbox[4]

\* max(persons, key=...): the first element whose key is largest
BiggestPerson(persons) ==
    LET k == CHOOSE i \in 1..Len(persons) :
                /\ \A j \in 1..Len(persons) : BoxKey(persons[j]) <= BoxKey(persons[i])
                /\ \A j \in 1..(i - 1) : BoxKey(persons[j]) < BoxKey(persons[i])
    IN  persons[k]

\* the target selection of a follow tick applied to one detection list in
\* which a person is visible
CalcPickTarget ==
    /\ calc.op = "none"
    /\ \E objects \in SeqsUpTo(FollowObjects, MaxDets) :
          /\ PersonsOf(objects) # <<>>
          /\ calc' = [op |-> "pick_target", objects |-> objects,
                      persons |-> PersonsOf(objects),
                      out |-> BiggestPerson(PersonsOf(objects))]

\* _compose_transforms applied to three poses, grouped both ways
CalcCompose ==
    /\ calc.op = "none"
    /\ \E A \in TfPoses, B \in TfPoses, C \in TfPoses :
        calc' = [op |-> "compose", a |-> A, b |-> B, c |-> C,
                 ab |-> ComposeTransforms(A, B),
                 left |-> ComposeTransforms(ComposeTransforms(A, B), C),
                 right |-> ComposeTransforms(A, ComposeTransforms(B, C))]

\* positions the approach loop may read: the target at 0.70 m (straight and
\* oblique), 0.71 m and 5 m from the robot
NavTargets == {<<70, 0>>, <<42, 56>>, <<71, 0>>, <<300, 400>>}
NavRobots  == {<<0, 0>>}

\* positions the follow loop may read: the person where the robot stands,
\* 0.70 m away (oblique) and 5 m away
FollowTargets == {<<0, 0>>, <<42, 56>>, <<300, 400>>}

\* dist and the goal of the follow loop on those positions, computed once
FollowDistAt == [t \in FollowTargets |-> [r \in NavRobots |-> PlanarDist(t, r)]]
FollowGoalAt == [t \in FollowTargets |-> [r \in NavRobots |-> FollowGoal(t, r)]]

\* ------------------------------------------------------------------------
\* follow_person
\* ------------------------------------------------------------------------
\* Transcripts walkie_audio.listen may return, as sequences of characters
\* ("" and None are both the empty sequence)
Transcripts ==
    { <<>>,
      <<"s", "t", "o", "p">>,
      <<"S", "T", "O", "P">>,
      <<"n", "o", "n", "S", "t", "O", "p", "!">>,
      <<"g", "o">>,
      <<"s", "t", "o">>,
      <<"s", "t", " ", "o", "p">>,
      <<"p", "o", "t", "s">> }

\* str.lower() on the characters used
LowerChar(c) ==
    CASE c = "S" -> "s"
      [] c = "T" -> "t"
      [] c = "O" -> "o"
      [] c = "P" -> "p"
      [] OTHER   -> c

Lower(t) == [k \in 1..Len(t) |-> LowerChar(t[k])]

\* needle in hay
Contains(hay, needle) ==
    \E k \in 0..(Len(hay) - Len(needle)) :
        \A j \in 1..Len(needle) : hay[k + j] = needle[j]

\* text and "stop" in text
HeardStopExact(t) == t # <<>> /\ Contains(t, <<"s", "t", "o", "p">>)

\* text and "stop" in text.lower()
HeardStop(t) == t # <<>> /\ Contains(Lower(t), <<"s", "t", "o", "p">>)

FollowInit ==
    /\ f_pc = "idle"
    /\ f_stop = FALSE
    /\ l_pc = "unborn"
    /\ text = <<>>
    /\ f_lastCmd = "none"
    /\ f_everGoTo = FALSE
    /\ f_gotosAfterSet = 0
    /\ f_cause = "none"
    /\ f_setBy = "none"
    /\ f_tick = <<>>
    /\ f_loc = NoLoc

\* follow_person is called: new event, listener thread started
FollowCall ==
    /\ f_pc = "idle"
    /\ f_pc' = "loop"
    /\ l_pc' = "check"
    /\ UNCHANGED <<f_stop, text, f_lastCmd, f_everGoTo, f_gotosAfterSet, f_cause, f_setBy,
                   f_tick, f_loc>>

\* _listen_for_stop: while not stop_event.is_set()
ListenerCheck ==
    /\ l_pc = "check"
    /\ l_pc' = IF f_stop THEN "done" ELSE "listen"
    /\ UNCHANGED <<f_pc, f_stop, text, f_lastCmd, f_everGoTo, f_gotosAfterSet, f_cause, f_setBy,
                   f_tick, f_loc>>

\* _listen_for_stop: listen returned a transcript
ListenerHeard ==
    /\ l_pc = "listen"
    /\ \E t \in Transcripts :
          /\ text' = t
          /\ IF HeardStop(t)
             THEN /\ f_stop' = TRUE
                  /\ l_pc' = "done"
                  /\ f_setBy' = IF f_stop THEN f_setBy ELSE "listener"
             ELSE /\ f_stop' = f_stop
                  /\ l_pc' = "check"
                  /\ f_setBy' = f_setBy
    /\ UNCHANGED <<f_pc, f_lastCmd, f_everGoTo, f_gotosAfterSet, f_cause, f_tick, f_loc>>

\* a listener that ends when listen raises
ListenerErrorFatal ==
    /\ l_pc = "listen"
    /\ l_pc' = "done"
    /\ UNCHANGED <<f_pc, f_stop, text, f_lastCmd, f_everGoTo, f_gotosAfterSet, f_cause, f_setBy,
                   f_tick, f_loc>>

\* _listen_for_stop: listen raised; log, sleep 0.5 s, retry
ListenerError ==
    /\ l_pc = "listen"
    /\ l_pc' = "backoff"
    /\ UNCHANGED <<f_pc, f_stop, text, f_lastCmd, f_everGoTo, f_gotosAfterSet, f_cause, f_setBy,
                   f_tick, f_loc>>

ListenerBackoff ==
    /\ l_pc = "backoff"
    /\ l_pc' = "check"
    /\ UNCHANGED <<f_pc, f_stop, text, f_lastCmd, f_everGoTo, f_gotosAfterSet, f_cause, f_setBy,
                   f_tick, f_loc>>

\* a while loop that never looks at the event
FollowLoopForever ==
    /\ f_pc = "loop"
    /\ f_pc' = "capture"
    /\ f_tick' = <<>>
    /\ f_loc' = NoLoc
    /\ UNCHANGED <<f_stop, l_pc, text, f_lastCmd, f_everGoTo, f_gotosAfterSet, f_cause, f_setBy>>

\* while not stop_event.is_set()
FollowLoopCheck ==
    /\ f_pc = "loop"
    /\ f_pc' = IF f_stop THEN "final_stop" ELSE "capture"
    /\ f_tick' = <<>>
    /\ f_loc' = NoLoc
    /\ UNCHANGED <<f_stop, l_pc, text, f_lastCmd, f_everGoTo, f_gotosAfterSet, f_cause, f_setBy>>

\* capture: an image, None (sleep and continue) or an exception
FollowCapture ==
    /\ f_pc = "capture"
    /\ f_pc' \in {"detect", "loop", "exc_stop"}
    /\ f_cause' = IF f_pc' = "exc_stop" THEN "capture" ELSE f_cause
    /\ UNCHANGED <<f_stop, l_pc, text, f_lastCmd, f_everGoTo, f_gotosAfterSet, f_setBy,
                   f_tick, f_loc>>

\* detect_objects and the person filter: some person, none, or an exception
FollowDetect ==
    /\ f_pc = "detect"
    /\ f_pc' \in {"locate", "no_person", "exc_stop"}
    /\ f_cause' = IF f_pc' = "exc_stop" THEN "detect_objects" ELSE f_cause
    /\ UNCHANGED <<f_stop, l_pc, text, f_lastCmd, f_everGoTo, f_gotosAfterSet, f_setBy,
                   f_tick, f_loc>>

\* a locate step without the dist > 0 test: every located person gets a go_to
FollowLocateAlways ==
    /\ f_pc = "locate"
    /\ \/ /\ f_pc' = "exc_stop"
          /\ f_cause' = "locate"
          /\ f_loc' = f_loc
       \/ \E t \in FollowTargets, r \in NavRobots :
             /\ f_loc' = [t |-> t, r |-> r]
             /\ f_pc' = "go_to"
             /\ f_cause' = f_cause
    /\ UNCHANGED <<f_stop, l_pc, text, f_lastCmd, f_everGoTo, f_gotosAfterSet, f_setBy, f_tick>>

\* bboxes_to_positions and get_pose: dist > 0, dist = 0 (no command), or an
\* exception (a failing call, or subscripting a None result)
FollowLocate ==
    /\ f_pc = "locate"
    /\ \/ /\ f_pc' = "exc_stop"
          /\ f_cause' = "locate"
          /\ f_loc' = f_loc
       \/ \E t \in FollowTargets, r \in NavRobots :
             /\ f_loc' = [t |-> t, r |-> r]
             /\ f_pc' = IF FollowDistAt[t][r] > 0 THEN "go_to" ELSE "loop"
             /\ f_cause' = f_cause
    /\ UNCHANGED <<f_stop, l_pc, text, f_lastCmd, f_everGoTo, f_gotosAfterSet, f_setBy, f_tick>>

\* robot.nav.go_to(goal_x, goal_y, angle_to_person, blocking=False), then
\* sleep; the call may raise (iterations, which is only counted and never
\* read, is left out)
FollowGoTo ==
    /\ f_pc = "go_to"
    /\ f_lastCmd' = "go_to"
    /\ f_everGoTo' = TRUE
    /\ f_gotosAfterSet' = IF f_stop /\ f_gotosAfterSet < 2
                          THEN f_gotosAfterSet + 1 ELSE f_gotosAfterSet
    /\ f_pc' \in {"loop", "exc_stop"}
    /\ f_cause' = IF f_pc' = "exc_stop" THEN "go_to" ELSE f_cause
    /\ f_tick' = Append(f_tick, Cmd("go_to", FollowGoalAt[f_loc.t][f_loc.r]))
    /\ UNCHANGED <<f_stop, l_pc, text, f_setBy, f_loc>>

\* a no-person branch that only sleeps and leaves the last goal active
FollowNoPersonSilent ==
    /\ f_pc = "no_person"
    /\ f_pc' = "loop"
    /\ UNCHANGED <<f_stop, l_pc, text, f_lastCmd, f_everGoTo, f_gotosAfterSet, f_cause,
                   f_setBy, f_tick, f_loc>>

\* no person visible: robot.nav.stop(), then sleep; the call may raise
FollowNoPerson ==
    /\ f_pc = "no_person"
    /\ f_lastCmd' = "stop"
    /\ f_pc' \in {"loop", "exc_stop"}
    /\ f_cause' = IF f_pc' = "exc_stop" THEN "stop" ELSE f_cause
    /\ f_tick' = Append(f_tick, Cmd("stop", NoGoal))
    /\ UNCHANGED <<f_stop, l_pc, text, f_everGoTo, f_gotosAfterSet, f_setBy, f_loc>>

\* an except handler that returns the error without stopping the robot
FollowExcNoStop ==
    /\ f_pc = "exc_stop"
    /\ f_pc' = "exc_set"
    /\ UNCHANGED <<f_stop, l_pc, text, f_lastCmd, f_everGoTo, f_gotosAfterSet, f_cause, f_setBy,
                   f_tick, f_loc>>

\* except Exception: robot.nav.stop(); if that raises the exception leaves
\* follow_person
FollowExcStop ==
    /\ f_pc = "exc_stop"
    /\ f_lastCmd' = "stop"
    /\ f_pc' \in {"exc_set", "raised"}
    /\ f_tick' = Append(f_tick, Cmd("stop", NoGoal))
    /\ UNCHANGED <<f_stop, l_pc, text, f_everGoTo, f_gotosAfterSet, f_cause, f_setBy,
                   f_loc>>

\* except Exception: stop_event.set()
FollowExcSet ==
    /\ f_pc = "exc_set"
    /\ f_stop' = TRUE
    /\ f_pc' = "exc_join"
    /\ f_setBy' = IF f_stop THEN f_setBy ELSE "handler"
    /\ UNCHANGED <<l_pc, text, f_lastCmd, f_everGoTo, f_gotosAfterSet, f_cause,
                   f_tick, f_loc>>

\* except Exception: listener_thread.join(timeout=2.0) returns, the listener
\* finished or not; return the error status
FollowExcJoin ==
    /\ f_pc = "exc_join"
    /\ f_pc' = "returned_err"
    /\ UNCHANGED <<f_stop, l_pc, text, f_lastCmd, f_everGoTo, f_gotosAfterSet, f_cause, f_setBy,
                   f_tick, f_loc>>

\* after the loop: robot.nav.stop(); outside the try, so a failure leaves
\* follow_person as an exception
FollowFinalStop ==
    /\ f_pc = "final_stop"
    /\ f_lastCmd' = "stop"
    /\ f_pc' \in {"final_join", "raised"}
    /\ f_tick' = Append(f_tick, Cmd("stop", NoGoal))
    /\ UNCHANGED <<f_stop, l_pc, text, f_everGoTo, f_gotosAfterSet, f_cause, f_setBy,
                   f_loc>>

\* after the loop: join(timeout=2.0) and return
FollowFinalJoin ==
    /\ f_pc = "final_join"
    /\ f_pc' = "returned_ok"
    /\ UNCHANGED <<f_stop, l_pc, text, f_lastCmd, f_everGoTo, f_gotosAfterSet, f_cause, f_setBy,
                   f_tick, f_loc>>

\* the steps of the calling context
FollowMain ==
    \/ FollowCall
    \/ FollowLoopCheck
    \/ FollowCapture
    \/ FollowDetect
    \/ FollowLocate
    \/ FollowGoTo
    \/ FollowNoPerson
    \/ FollowExcStop
    \/ FollowExcSet
    \/ FollowExcJoin
    \/ FollowFinalStop
    \/ FollowFinalJoin

\* the steps of the listener context
FollowListener ==
    \/ ListenerCheck
    \/ ListenerHeard
    \/ ListenerError
    \/ ListenerBackoff

\* ------------------------------------------------------------------------
\* go_to_raised_hand
\* ------------------------------------------------------------------------
ApproachInit ==
    /\ a_pc = "idle"
    /\ a_deadline = FALSE
    /\ a_lastCmd = "none"
    /\ a_everGoTo = FALSE
    /\ a_cause = "none"
    /\ a_everRaised = FALSE
    /\ a_loc = NoLoc
    /\ a_tick = <<>>

\* go_to_raised_hand is called: start_time = time.time()
ApproachCall ==
    /\ a_pc = "idle"
    /\ a_pc' = "time_check"
    /\ UNCHANGED <<a_deadline, a_lastCmd, a_everGoTo, a_cause, a_everRaised, a_loc, a_tick>>

\* wall-clock time passes RAISED_HAND_TIMEOUT while the call is running
ApproachClock ==
    /\ a_pc \notin {"idle", "returned_timeout", "returned_arrived", "returned_err", "raised"}
    /\ ~a_deadline
    /\ a_deadline' = TRUE
    /\ UNCHANGED <<a_pc, a_lastCmd, a_everGoTo, a_cause, a_everRaised, a_loc, a_tick>>

\* a while True that never looks at the clock
ApproachTimeCheckNever ==
    /\ a_pc = "time_check"
    /\ a_pc' = "capture"
    /\ a_loc' = NoLoc
    /\ a_tick' = <<>>
    /\ UNCHANGED <<a_deadline, a_lastCmd, a_everGoTo, a_cause, a_everRaised>>

\* top of a tick: if elapsed > RAISED_HAND_TIMEOUT
ApproachTimeCheck ==
    /\ a_pc = "time_check"
    /\ a_pc' = IF a_deadline THEN "timeout_stop" ELSE "capture"
    /\ a_loc' = NoLoc
    /\ a_tick' = <<>>
    /\ UNCHANGED <<a_deadline, a_lastCmd, a_everGoTo, a_cause, a_everRaised>>

\* timeout branch: robot.nav.stop() and return; the call may raise
ApproachTimeoutStop ==
    /\ a_pc = "timeout_stop"
    /\ a_lastCmd' = "stop"
    /\ a_tick' = Append(a_tick, Cmd("stop", NoGoal))
    /\ a_pc' \in {"returned_timeout", "exc_stop"}
    /\ a_cause' = IF a_pc' = "exc_stop" THEN "stop" ELSE a_cause
    /\ UNCHANGED <<a_deadline, a_everGoTo, a_everRaised, a_loc>>

\* capture: an image, None (sleep and continue) or an exception
ApproachCapture ==
    /\ a_pc = "capture"
    /\ a_pc' \in {"estimate", "time_check", "exc_stop"}
    /\ a_cause' = IF a_pc' = "exc_stop" THEN "capture" ELSE a_cause
    /\ UNCHANGED <<a_deadline, a_lastCmd, a_everGoTo, a_everRaised, a_loc, a_tick>>

\* estimate_poses raised
ApproachEstimateFails ==
    /\ a_pc' = "exc_stop"
    /\ a_cause' = "estimate_poses"
    /\ a_everRaised' = a_everRaised

\* poses = estimate_poses(image); raised = [p for p in poses if _has_raised_hand(p)]
ApproachEstimate ==
    /\ a_pc = "estimate"
    /\ \/ ApproachEstimateFails
       \/ \E poses \in SeqsUpTo(TickPoses, MaxPoses) :
             LET raised == SelectSeq(poses, HasRaisedHand)
             IN  /\ a_pc' = IF raised = <<>> THEN "no_hand" ELSE "locate"
                 /\ a_everRaised' = (a_everRaised \/ raised # <<>>)
                 /\ a_cause' = a_cause
    /\ UNCHANGED <<a_deadline, a_lastCmd, a_everGoTo, a_loc, a_tick>>

\* nobody raises a hand: robot.nav.stop(), sleep, continue; the call may raise
ApproachNoHand ==
    /\ a_pc = "no_hand"
    /\ a_lastCmd' = "stop"
    /\ a_tick' = Append(a_tick, Cmd("stop", NoGoal))
    /\ a_pc' \in {"time_check", "exc_stop"}
    /\ a_cause' = IF a_pc' = "exc_stop" THEN "stop" ELSE a_cause
    /\ UNCHANGED <<a_deadline, a_everGoTo, a_everRaised, a_loc>>

\* bboxes_to_positions or get_pose raised, or the position list held None
ApproachLocateFails ==
    /\ a_pc' = "exc_stop"
    /\ a_cause' = "locate"
    /\ a_loc' = a_loc

\* a locate step that takes the target for reached one centimetre too early
ApproachLocateLoose ==
    /\ a_pc = "locate"
    /\ \/ ApproachLocateFails
       \/ \E t \in NavTargets, r \in NavRobots :
             /\ a_loc' = [t |-> t, r |-> r]
             /\ a_pc' = IF PlanarDist(t, r) <= APPROACH_DISTANCE + 1
                        THEN "arrive_stop" ELSE "go_to"
             /\ a_cause' = a_cause
    /\ UNCHANGED <<a_deadline, a_lastCmd, a_everGoTo, a_everRaised, a_tick>>

\* target_pos, curr_pos, dist and the test dist <= APPROACH_DISTANCE
ApproachLocate ==
    /\ a_pc = "locate"
    /\ \/ ApproachLocateFails
       \/ \E t \in NavTargets, r \in NavRobots :
             /\ a_loc' = [t |-> t, r |-> r]
             /\ a_pc' = IF PlanarDist(t, r) <= APPROACH_DISTANCE
                        THEN "arrive_stop" ELSE "go_to"
             /\ a_cause' = a_cause
    /\ UNCHANGED <<a_deadline, a_lastCmd, a_everGoTo, a_everRaised, a_tick>>

\* arrived: robot.nav.stop() and return; the call may raise
ApproachArriveStop ==
    /\ a_pc = "arrive_stop"
    /\ a_lastCmd' = "stop"
    /\ a_tick' = Append(a_tick, Cmd("stop", NoGoal))
    /\ a_pc' \in {"returned_arrived", "exc_stop"}
    /\ a_cause' = IF a_pc' = "exc_stop" THEN "stop" ELSE a_cause
    /\ UNCHANGED <<a_deadline, a_everGoTo, a_everRaised, a_loc>>

\* robot.nav.go_to(..., blocking=False), then sleep; the call may raise
ApproachGoTo ==
    /\ a_pc = "go_to"
    /\ a_lastCmd' = "go_to"
    /\ a_everGoTo' = TRUE
    /\ a_tick' = Append(a_tick, Cmd("go_to", ApproachGoal(a_loc.t, a_loc.r)))
    /\ a_pc' \in {"time_check", "exc_stop"}
    /\ a_cause' = IF a_pc' = "exc_stop" THEN "go_to" ELSE a_cause
    /\ UNCHANGED <<a_deadline, a_everRaised, a_loc>>

\* except Exception: robot.nav.stop() and return the error; if the stop
\* raises the exception leaves go_to_raised_hand
ApproachExcStop ==
    /\ a_pc = "exc_stop"
    /\ a_lastCmd' = "stop"
    /\ a_tick' = Append(a_tick, Cmd("stop", NoGoal))
    /\ a_pc' \in {"returned_err", "raised"}
    /\ UNCHANGED <<a_deadline, a_everGoTo, a_cause, a_everRaised, a_loc>>

\* the steps of the calling context
ApproachMain ==
    \/ ApproachCall
    \/ ApproachTimeCheck
    \/ ApproachTimeoutStop
    \/ ApproachCapture
    \/ ApproachEstimate
    \/ ApproachNoHand
    \/ ApproachLocate
    \/ ApproachArriveStop
    \/ ApproachGoTo
    \/ ApproachExcStop

ApproachNext ==
    \/ ApproachMain
    \/ ApproachClock

\* ------------------------------------------------------------------------
\* VRTeleopHandler
\* ------------------------------------------------------------------------
NoSession == 0       \* self.session is None
NoSub     == 0       \* self.sub is None

\* self.ee_links: the controlled groups
EeGroups == {"left_arm", "right_arm"}

\* what _lookup_ee_pose returns for every link: (0.3, 0.2, 0.6, 0, 0, 0, 1),
\* translation in decimetres
RefPose == <<3, 2, 6, 0, 0, 0, 1>>

\* self._initial_poses = {}
NoPoses == [g \in {} |-> RefPose]

\* the "group_name" entry of a payload: a name, JSON null, or no entry
NoGroupKey == "<missing>"
NullGroup  == "<null>"

GroupFields == {"left_arm", "right_arm", "head", NullGroup, NoGroupKey}

\* controller messages: a well-formed payload, a payload without the "x"
\* entry, and a payload that is not JSON
Msgs ==
    [kind : {"ok", "no_field"}, group : GroupFields]
        \cup {[kind |-> "bad_json", group |-> NoGroupKey]}

NoMsg == [kind |-> "none", group |-> NoGroupKey]

\* the record of a start()/stop() call: the state it found, the reference
\* poses it captured, the transport operations it made, how it ended
Call(op, wasRunning, captures, ops, ret) ==
    [op |-> op, wasRunning |-> wasRunning, captures |-> captures, ops |-> ops, ret |-> ret]

TeleopInit ==
    /\ t_running = FALSE
    /\ t_session = NoSession
    /\ t_sub = NoSub
    /\ t_initial = NoPoses
    /\ t_open = {}
    /\ t_subs = {}
    /\ t_lpc = "idle"
    /\ t_msg = NoMsg
    /\ t_ik = 0
    /\ t_lastIk = "none"
    /\ t_calls = 0
    /\ t_call = Call("none", FALSE, 0, <<>>, "none")
    /\ t_delivered = 0
    /\ t_outcome = "none"
    /\ t_faults = 0

\* the id of the session the next zenoh.open returns: sessions are numbered
\* as they are opened, and self.session holds the last one opened
NextSessionId == t_session + 1

\* start() past its guard: capture the reference poses, open the session,
\* set is_running, declare the subscriber.  zenoh.open and
\* declare_subscriber may raise, and the exception leaves start()
TeleopStartBody ==
    LET sid == NextSessionId
    IN  /\ t_initial' = [g \in EeGroups |-> RefPose]
        /\ \/ /\ UNCHANGED <<t_running, t_session, t_sub, t_open, t_subs>>
              /\ t_call' = Call("start", t_running, Cardinality(EeGroups), <<>>, "raised")
           \/ /\ t_session' = sid
              /\ t_open' = t_open \cup {sid}
              /\ t_running' = TRUE
              /\ \/ /\ UNCHANGED <<t_sub, t_subs>>
                    /\ t_call' = Call("start", t_running, Cardinality(EeGroups),
                                      <<"open">>, "raised")
                 \/ /\ t_sub' = sid
                    /\ t_subs' = t_subs \cup {sid}
                    /\ t_call' = Call("start", t_running, Cardinality(EeGroups),
                                      <<"open", "declare_subscriber">>, "started")

\* a start() without the is_running guard
TeleopStartUnguarded ==
    /\ t_calls < MaxCalls
    /\ NextSessionId <= MaxSessions
    /\ t_calls' = t_calls + 1
    /\ TeleopStartBody
    /\ UNCHANGED <<t_lpc, t_msg, t_ik, t_lastIk, t_delivered, t_outcome, t_faults>>

\* start()
TeleopStart ==
    /\ t_calls < MaxCalls
    /\ t_calls' = t_calls + 1
    /\ IF t_running
       THEN /\ t_call' = Call("start", TRUE, 0, <<>>, "already running")
            /\ UNCHANGED <<t_running, t_session, t_sub, t_initial, t_open, t_subs>>
       ELSE /\ NextSessionId <= MaxSessions
            /\ TeleopStartBody
    /\ UNCHANGED <<t_lpc, t_msg, t_ik, t_lastIk, t_delivered, t_outcome, t_faults>>

\* stop(): is_running = False; if self.sub: undeclare; if self.session:
\* close.  Neither attribute is reset.  A raising undeclare or close leaves
\* stop() with the exception
TeleopStop ==
    /\ t_calls < MaxCalls
    /\ t_calls' = t_calls + 1
    /\ t_running' = FALSE
    /\ \/ /\ t_sub # NoSub
          /\ UNCHANGED <<t_subs, t_open>>
          /\ t_call' = Call("stop", t_running, 0, <<"undeclare">>, "raised")
       \/ /\ t_subs' = t_subs \ {t_sub}
          /\ LET undecl == IF t_sub # NoSub THEN <<"undeclare">> ELSE <<>>
             IN  \/ /\ t_session # NoSession
                    /\ t_open' = t_open
                    /\ t_call' = Call("stop", t_running, 0, undecl \o <<"close">>, "raised")
                 \/ /\ t_open' = t_open \ {t_session}
                    /\ t_call' = Call("stop", t_running, 0,
                                      undecl \o (IF t_session # NoSession
                                                 THEN <<"close">> ELSE <<>>),
                                      "stopped")
    /\ UNCHANGED <<t_session, t_sub, t_initial, t_lpc, t_msg, t_ik, t_lastIk, t_delivered,
                   t_outcome, t_faults>>

\* the transport calls listener(sample) of a registered subscriber:
\* if not self.is_running: return
TeleopDeliver ==
    /\ t_subs # {}
    /\ t_lpc = "idle"
    /\ t_delivered < MaxMsgs
    /\ t_delivered' = t_delivered + 1
    /\ \E m \in Msgs : t_msg' = m
    /\ t_lpc' = IF t_running THEN "handling" ELSE "idle"
    /\ UNCHANGED <<t_running, t_session, t_sub, t_initial, t_open, t_subs, t_ik, t_lastIk,
                   t_calls, t_call, t_outcome, t_faults>>

\* data.get("group_name", "left_arm")
GroupOf(m) == IF m.group = NoGroupKey THEN "left_arm" ELSE m.group

\* the message gets as far as go_to_pose_quaternion: the payload parses,
\* its group has a reference pose, and every field is there
ReachesIk(m) ==
    /\ m.kind # "bad_json"
    /\ GroupOf(m) \in DOMAIN t_initial
    /\ m.kind = "ok"

\* the payload raises before the command: json.loads on a payload that is
\* not JSON, or data["x"] on a payload of a known group without that entry
RaisesBeforeIk(m) ==
    \/ m.kind = "bad_json"
    \/ (m.kind = "no_field" /\ GroupOf(m) \in DOMAIN t_initial)

\* the try block of listener: the message is dropped (unknown group), or an
\* exception is raised before the command, or go_to_pose_quaternion is
\* called and returns or raises
HandleBody ==
    /\ t_lpc = "handling"
    /\ t_lpc' = "idle"
    /\ IF ReachesIk(t_msg)
       THEN /\ t_ik' = t_ik + 1
            /\ t_lastIk' = GroupOf(t_msg)
            /\ \/ t_outcome' = "ik"
               \/ t_outcome' = "ik_failed"
       ELSE /\ UNCHANGED <<t_ik, t_lastIk>>
            /\ t_outcome' = IF RaisesBeforeIk(t_msg) THEN "error" ELSE "dropped"
    /\ t_faults' = IF t_outcome' \in {"error", "ik_failed"} THEN t_faults + 1 ELSE t_faults
    /\ UNCHANGED <<t_initial, t_msg, t_calls, t_call, t_delivered>>

\* a listener whose exception leaves the callback: the transport drops the
\* subscriber that raised
TeleopHandleCrash ==
    /\ HandleBody
    /\ t_subs' = IF t_outcome' \in {"error", "ik_failed"} THEN t_subs \ {t_sub} ELSE t_subs
    /\ UNCHANGED <<t_running, t_session, t_sub, t_open>>

\* listener, from json.loads on: except Exception catches whatever the try
\* block raises and prints it
TeleopHandle ==
    /\ HandleBody
    /\ UNCHANGED <<t_running, t_session, t_sub, t_open, t_subs>>

\* ------------------------------------------------------------------------
\* The pose the listener commands.  Rotations of controller messages and of
\* reference poses are doubled unit quaternions, as for the pose helpers
\* ------------------------------------------------------------------------
\* a pose with its quaternion doubled
Doubled(pose) ==
    <<pose[1], pose[2], pose[3], 2 * pose[4], 2 * pose[5], 2 * pose[6], 2 * pose[7]>>

\* euler_to_quaternion(0, 0, math.radians(-90)) of walkie_sdk: the rotation
\* (0, 0, -sin 45, cos 45).  Its components are (0, 0, -1, 1) * sqrt(2)/2;
\* the tuple is the doubled quaternion times sqrt(2), so every quaternion
\* that has the offset as a factor carries the same factor sqrt(2)
YawOffsetQuat == <<0, 0, 0 - 2, 2>>

\* _remap_controller_to_ros(cx, cy, cz, cqx, cqy, cqz, cqw)
RemapControllerToRos(c) ==
    LET ros_q      == <<0 - c[4], 0 - c[6], c[5], c[7]>>
        final_quat == QuaternionMultiply(ros_q, YawOffsetQuat)
    IN  <<0 - c[1], 0 - c[3], c[2],
          final_quat[1], final_quat[2], final_quat[3], final_quat[4]>>

\* the keyword arguments of go_to_pose_quaternion
IkCommand(pose, group) ==
    [pose |-> pose, group_name |-> group, mode |-> "custom_ik", blocking |-> FALSE]

\* a listener that commands the remapped delta itself, not offset by the
\* reference pose
ListenerTargetAbsolute(init, data) == RemapControllerToRos(data)

\* listener, steps 1 and 2: remap the delta, add its translation to the
\* reference translation, multiply the reference rotation by its rotation
ListenerTarget(init, data) ==
    LET ros_delta   == RemapControllerToRos(data)
        target_quat == QuaternionMultiply(SubSeq(init, 4, 7), SubSeq(ros_delta, 4, 7))
    IN  <<init[1] + ros_delta[1], init[2] + ros_delta[2], init[3] + ros_delta[3],
          target_quat[1], target_quat[2], target_quat[3], target_quat[4]>>

\* the reference poses start() can capture: _lookup_ee_pose returns the same
\* pose for every link
InitialPoses == {Doubled(RefPose)}

\* the listener's computation applied to one message of a known group
CalcTeleopTarget ==
    /\ calc.op = "none"
    /\ \E g \in EeGroups, init \in InitialPoses, data \in TfPoses :
        calc' = [op |-> "teleop_target", group |-> g, init |-> init, data |-> data,
                 out |-> IkCommand(ListenerTarget(init, data), g)]

\* ------------------------------------------------------------------------
\* BackgroundVisionMonitor
\* ------------------------------------------------------------------------
NoTime == 0          \* self._last_updated is None (timestamps are 1, 2, ...)

VisionModes == {"OBJECT_DETECT", "OBJECT_CAPTION"}

\* what detect_objects returns to the monitor: name and confidence (percent)
MonitorObjects == [class_name : {"cup", NoName}, confidence : ConfValues]

\* obj.class_name or "unknown"
NameOrUnknown(obj) == IF obj.class_name = NoName THEN "unknown" ELSE obj.class_name

\* obj.confidence or 0.0
ConfOrZero(obj) == IF obj.confidence = NoConf THEN 0 ELSE obj.confidence

\* the confidence filter of _run_cycle
RECURSIVE KeepConfident(_, _)
KeepConfident(objects, threshold) ==
    IF objects = <<>> THEN <<>>
    ELSE IF ConfOrZero(Head(objects)) >= threshold
         THEN <<Head(objects)>> \o KeepConfident(Tail(objects), threshold)
         ELSE KeepConfident(Tail(objects), threshold)

\* _format_detect_only: the lines that are joined with "\n"
FormatDetectOnly(objects) ==
    <<<<"Detected", Len(objects), "object(s):">>>>
        \o [i \in 1..Len(objects) |->
              <<i, NameOrUnknown(objects[i]), ConfOrZero(objects[i])>>]

\* _format_with_captions: caption_batch raised (captions = NoPos) or
\* returned the captions; zip stops at the shorter list
FormatWithCaptions(objects, captions) ==
    IF captions = NoPos
    THEN FormatDetectOnly(objects)
    ELSE LET n == IF Len(captions) < Len(objects) THEN Len(captions) ELSE Len(objects)
         IN  <<<<"Detected", Len(objects), "object(s) with descriptions:">>>>
                 \o [i \in 1..n |->
                       <<i, NameOrUnknown(objects[i]), ConfOrZero(objects[i]), captions[i]>>]

\* the string _run_cycle returns for the detections of one frame
RunCycleResult(mode, detected, captions) ==
    LET objects == KeepConfident(detected, MONITOR_CONF_THRESHOLD)
    IN  IF objects = <<>> THEN <<<<"No objects detected.">>>>
        ELSE IF mode = "OBJECT_CAPTION" THEN FormatWithCaptions(objects, captions)
        ELSE FormatDetectOnly(objects)

\* what caption_batch may do for n crops: raise, or return one caption each
CaptionOutcomes(n) == {NoPos, [i \in 1..n |-> "a caption"]}

MonitorFresh == [pc |-> "unborn", result |-> <<>>, failures |-> 0]

NoRead == [prop |-> "none", value |-> <<>>]

\* the attributes __init__ sets; the mode is its argument
MonitorInit ==
    /\ m_mode = "unbuilt"
    /\ m_stop = FALSE
    /\ m_thread = NoThread
    /\ m_ctl = "idle"
    /\ m_ctx = [t \in Contexts |-> MonitorFresh]
    /\ m_lock = 0
    /\ m_latest = <<>>
    /\ m_updated = NoTime
    /\ m_now = 0
    /\ m_cycles = 0
    /\ m_read = NoRead

\* __init__(walkie_vision, mode, ...)
MonitorNew ==
    /\ m_mode = "unbuilt"
    /\ m_mode' \in VisionModes
    /\ UNCHANGED <<m_stop, m_thread, m_ctl, m_ctx, m_lock, m_latest, m_updated, m_now,
                   m_cycles, m_read>>

\* is_running()
MonitorRunning == m_thread # NoThread /\ m_ctx[m_thread].pc # "done"

\* start(): return while running, else clear the event and spawn a context
MonitorStart ==
    /\ m_mode # "unbuilt"
    /\ m_ctl = "idle"
    /\ IF MonitorRunning
       THEN UNCHANGED <<m_stop, m_thread, m_ctx>>
       ELSE /\ \E t \in Contexts :
                  /\ m_ctx[t].pc = "unborn"
                  /\ \A u \in Contexts : u < t => m_ctx[u].pc # "unborn"
                  /\ m_ctx' = [m_ctx EXCEPT ![t].pc = "check"]
                  /\ m_thread' = t
            /\ m_stop' = FALSE
    /\ UNCHANGED <<m_mode, m_ctl, m_lock, m_latest, m_updated, m_now, m_cycles, m_read>>

\* stop(), first half: set the event; with a thread, begin the join
MonitorStopBegin ==
    /\ m_mode # "unbuilt"
    /\ m_ctl = "idle"
    /\ m_stop' = TRUE
    /\ m_ctl' = IF m_thread # NoThread THEN "joining" ELSE "idle"
    /\ UNCHANGED <<m_mode, m_thread, m_ctx, m_lock, m_latest, m_updated, m_now, m_cycles,
                   m_read>>

\* stop(), second half: join returns because the context exited
MonitorStopJoined ==
    /\ m_ctl = "joining"
    /\ m_ctx[m_thread].pc = "done"
    /\ m_thread' = NoThread
    /\ m_ctl' = "idle"
    /\ UNCHANGED <<m_mode, m_stop, m_ctx, m_lock, m_latest, m_updated, m_now, m_cycles,
                   m_read>>

\* stop(), second half: join(timeout=max(interval * 2, 5.0)) returns while
\* the context is still inside _run_cycle; the context is abandoned
MonitorStopTimeout ==
    /\ m_ctl = "joining"
    /\ m_ctx[m_thread].pc = "cycle"
    /\ m_thread' = NoThread
    /\ m_ctl' = "idle"
    /\ UNCHANGED <<m_mode, m_stop, m_ctx, m_lock, m_latest, m_updated, m_now, m_cycles,
                   m_read>>

\* _loop: while not self._stop_event.is_set()
MonitorLoopCheck(t) ==
    /\ m_ctx[t].pc = "check"
    /\ m_stop \/ m_cycles < MaxMonitorCycles
    /\ m_ctx' = [m_ctx EXCEPT ![t].pc = IF m_stop THEN "done" ELSE "cycle"]
    /\ m_cycles' = IF m_stop THEN m_cycles ELSE m_cycles + 1
    /\ UNCHANGED <<m_mode, m_stop, m_thread, m_ctl, m_lock, m_latest, m_updated, m_now,
                   m_read>>

\* result = self._run_cycle(): capture or detect_objects raises, and the
\* except clause prints and goes on to the wait; or the cycle returns its
\* string
MonitorCycle(t) ==
    /\ m_ctx[t].pc = "cycle"
    /\ \/ m_ctx' = [m_ctx EXCEPT ![t].pc = "wait", ![t].failures = @ + 1]
       \/ \E detected \in SeqsUpTo(MonitorObjects, MaxDets) :
            \E captions \in CaptionOutcomes(Len(KeepConfident(detected, MONITOR_CONF_THRESHOLD))) :
               m_ctx' = [m_ctx EXCEPT ![t].pc = "acquire",
                                      ![t].result = RunCycleResult(m_mode, detected, captions)]
    /\ UNCHANGED <<m_mode, m_stop, m_thread, m_ctl, m_lock, m_latest, m_updated, m_now,
                   m_cycles, m_read>>

\* with self._lock: (entry)
MonitorAcquire(t) ==
    /\ m_ctx[t].pc = "acquire"
    /\ m_lock = 0
    /\ m_lock' = t
    /\ m_ctx' = [m_ctx EXCEPT ![t].pc = "store_result"]
    /\ UNCHANGED <<m_mode, m_stop, m_thread, m_ctl, m_latest, m_updated, m_now, m_cycles,
                   m_read>>

\* a store of the result made after leaving the lock
MonitorStoreResultUnlocked(t) ==
    /\ m_ctx[t].pc = "store_result"
    /\ m_latest' = m_ctx[t].result
    /\ m_lock' = 0
    /\ m_ctx' = [m_ctx EXCEPT ![t].pc = "store_time"]
    /\ UNCHANGED <<m_mode, m_stop, m_thread, m_ctl, m_updated, m_now, m_cycles, m_read>>

\* self._latest_result = result
MonitorStoreResult(t) ==
    /\ m_ctx[t].pc = "store_result"
    /\ m_latest' = m_ctx[t].result
    /\ m_ctx' = [m_ctx EXCEPT ![t].pc = "store_time"]
    /\ UNCHANGED <<m_mode, m_stop, m_thread, m_ctl, m_lock, m_updated, m_now, m_cycles,
                   m_read>>

\* self._last_updated = datetime.now(), and the lock is left
MonitorStoreTime(t) ==
    /\ m_ctx[t].pc = "store_time"
    /\ m_now' = m_now + 1
    /\ m_updated' = m_now'
    /\ m_lock' = 0
    /\ m_ctx' = [m_ctx EXCEPT ![t].pc = "wait", ![t].result = <<>>]
    /\ UNCHANGED <<m_mode, m_stop, m_thread, m_ctl, m_latest, m_cycles, m_read>>

\* self._stop_event.wait(timeout=self._interval) returns
MonitorWait(t) ==
    /\ m_ctx[t].pc = "wait"
    /\ m_ctx' = [m_ctx EXCEPT ![t].pc = "check"]
    /\ UNCHANGED <<m_mode, m_stop, m_thread, m_ctl, m_lock, m_latest, m_updated, m_now,
                   m_cycles, m_read>>

\* property latest_result: read under the lock
MonitorReadResult ==
    /\ m_mode # "unbuilt"
    /\ m_lock = 0
    /\ m_read' = [prop |-> "latest_result", value |-> m_latest]
    /\ UNCHANGED <<m_mode, m_stop, m_thread, m_ctl, m_ctx, m_lock, m_latest, m_updated,
                   m_now, m_cycles>>

\* property last_updated: read under the lock
MonitorReadUpdated ==
    /\ m_mode # "unbuilt"
    /\ m_lock = 0
    /\ m_read' = [prop |-> "last_updated", value |-> m_updated]
    /\ UNCHANGED <<m_mode, m_stop, m_thread, m_ctl, m_ctx, m_lock, m_latest, m_updated,
                   m_now, m_cycles>>

MonitorSteps ==
    \/ MonitorNew
    \/ MonitorStart
    \/ MonitorStopBegin
    \/ MonitorStopJoined
    \/ MonitorStopTimeout
    \/ \E t \in Contexts : MonitorLoopCheck(t)
    \/ \E t \in Contexts : MonitorCycle(t)
    \/ \E t \in Contexts : MonitorAcquire(t)
    \/ \E t \in Contexts : MonitorStoreResult(t)
    \/ \E t \in Contexts : MonitorStoreTime(t)
    \/ \E t \in Contexts : MonitorWait(t)
    \/ MonitorReadResult
    \/ MonitorReadUpdated

\* ------------------------------------------------------------------------
\* Specifications
\* ------------------------------------------------------------------------
NavInit == FollowInit /\ ApproachInit

Init == DetInit /\ NavInit /\ CalcInit /\ TeleopInit /\ MonitorInit

\* the detector: its caller and its loop contexts
Next == DetNext /\ UNCHANGED <<run, navVars, sideVars>>

Spec == Init /\ [][Next]_vars

\* the detector with a context that reads visible_objects at any moment
ReadNext ==
    \/ (DetNext /\ UNCHANGED <<run, navVars, sideVars>>)
    \/ (Read /\ UNCHANGED <<run, navVars, sideVars>>)

SpecRead == Init /\ [][ReadNext]_vars

\* the two navigation tools, each called once, running side by side
NavNext ==
    \/ (FollowMain /\ UNCHANGED <<detVars, approachVars, sideVars>>)
    \/ (FollowListener /\ UNCHANGED <<detVars, approachVars, sideVars>>)
    \/ (ApproachNext /\ UNCHANGED <<detVars, followVars, sideVars>>)

SpecNav == Init /\ [][NavNext]_vars

\* each context of follow_person keeps running: its external calls return
SpecNavFair ==
    /\ Init
    /\ [][NavNext]_vars
    /\ WF_vars(FollowMain /\ UNCHANGED <<detVars, approachVars, sideVars>>)

\* go_to_raised_hand called on its own
ApproachAlone == ApproachNext /\ UNCHANGED <<detVars, followVars, sideVars>>

\* the calling context of go_to_raised_hand keeps running (its external
\* calls return) and wall-clock time advances
SpecApproachFair ==
    /\ Init
    /\ [][ApproachAlone]_vars
    /\ WF_vars(ApproachMain /\ UNCHANGED <<detVars, followVars, sideVars>>)
    /\ WF_vars(ApproachClock /\ UNCHANGED <<detVars, followVars, sideVars>>)

\* the cycles of one loop context, each taken as a whole
CycleNext == CycleStep /\ UNCHANGED <<navVars, sideVars>>

SpecCycle == Init /\ [][CycleNext]_vars

\* one of the helper functions applied to one input
CalcNext ==
    \/ (CalcHasRaisedHand /\ UNCHANGED <<detVars, navVars, teleopVars, monitorVars>>)
    \/ (CalcFollowGoal /\ UNCHANGED <<detVars, navVars, teleopVars, monitorVars>>)
    \/ (CalcApproachGoal /\ UNCHANGED <<detVars, navVars, teleopVars, monitorVars>>)
    \/ (CalcCompose /\ UNCHANGED <<detVars, navVars, teleopVars, monitorVars>>)
    \/ (CalcFindNearby /\ UNCHANGED <<detVars, navVars, teleopVars, monitorVars>>)
    \/ (CalcPickTarget /\ UNCHANGED <<detVars, navVars, teleopVars, monitorVars>>)
    \/ (CalcTeleopTarget /\ UNCHANGED <<detVars, navVars, teleopVars, monitorVars>>)

SpecCalc == Init /\ [][CalcNext]_vars

\* the teleoperation handler: its caller and the transport's callback
TeleopNext ==
    \/ (TeleopStart /\ UNCHANGED <<detVars, navVars, calcVars, monitorVars>>)
    \/ (TeleopStop /\ UNCHANGED <<detVars, navVars, calcVars, monitorVars>>)
    \/ (TeleopDeliver /\ UNCHANGED <<detVars, navVars, calcVars, monitorVars>>)
    \/ (TeleopHandle /\ UNCHANGED <<detVars, navVars, calcVars, monitorVars>>)

SpecTeleop == Init /\ [][TeleopNext]_vars

\* the vision monitor: its caller, its loop contexts and a reader
MonitorNext == MonitorSteps /\ UNCHANGED <<detVars, navVars, calcVars, teleopVars>>

SpecMonitor == Init /\ [][MonitorNext]_vars

TypeOK == cycles \in 0..MaxCycles
\* ------------------------------------------------------------------------
\* Properties of the detector and the store
\* ------------------------------------------------------------------------
\* a list is a complete snapshot: empty, or all of its entries were built by
\* one cycle and it has every entry that cycle kept, in order
Complete(L) ==
    \A k \in 1..Len(L) : L[k].cyc = L[1].cyc /\ L[k].n = Len(L) /\ L[k].idx = k

\* C1: every value returned by visible_objects is the initial empty list or
\* the complete list published by one cycle, never a partially built list or
\* a mix of two cycles
C1_SnapshotAtomic == Complete(readVal)

\* a two-entry snapshot was read and a later cycle is half-way through
\* building its own two-entry list
C1_Witness ==
    /\ Len(readVal) = 2
    /\ \E t \in Contexts : /\ ctx[t].pc = "find"
                           /\ Len(ctx[t].filtered) = 2
                           /\ Len(ctx[t].fv) = 1
                           /\ ctx[t].cyc # readVal[1].cyc

\* C2: every non-null object_id of the published snapshot names a record
\* that is already in the store
C2_SnapshotPersisted ==
    \A k \in 1..Len(visible) :
        visible[k].object_id # NoId => HasId(store, visible[k].object_id)

\* a snapshot with two stored objects is published
C2_Witness ==
    /\ Len(visible) = 2
    /\ visible[1].object_id # NoId
    /\ visible[2].object_id # NoId
    /\ visible[1].object_id # visible[2].object_id

\* C3: no two stored records of the same class lie within dedup_radius of
\* each other
C3_StoreDedup ==
    \A j, k \in 1..Len(store) :
        (j # k /\ store[j].class_id # NoClass /\ store[j].class_id = store[k].class_id)
            => DistSq(store[j].pos, store[k].pos) > Sq(DedupRadius)

\* the step is the publication by context t
Publishes(t) == ctx[t].pc = "publish" /\ ctx'[t].pc = "check"

\* C4: when two cycles that follow each other with no other cycle in between
\* or overlapping each detect one object of the same class at the same
\* position, the second publishes the object_id the first published, creates
\* no record, and the store holds exactly one record with that id, at that
\* position
C4_DedupIdempotent ==
    [][\A t \in Contexts :
          ( /\ Publishes(t)
            /\ ctx[t].solo
            /\ lastSolo > 0
            /\ ctx[t].cyc = lastSolo + 1
            /\ Len(visible) = 1
            /\ visible[1].cyc = lastSolo
            /\ Len(ctx[t].fv) = 1
            /\ visible[1].class_id # NoClass
            /\ visible[1].position # NoPos
            /\ ctx[t].fv[1].class_id = visible[1].class_id
            /\ ctx[t].fv[1].position = visible[1].position )
          => /\ ctx[t].fv[1].object_id = visible[1].object_id
             /\ ~ctx[t].created
             /\ Cardinality({k \in 1..Len(store) :
                               store[k].object_id = visible[1].object_id}) = 1
             /\ \A k \in 1..Len(store) :
                   store[k].object_id = visible[1].object_id
                      => /\ store[k].pos = visible[1].position
                         /\ store[k].class_id = visible[1].class_id
      ]_vars

\* the second of two such cycles is about to publish
C4_Witness ==
    \E t \in Contexts :
        /\ ctx[t].pc = "publish"
        /\ ctx[t].solo
        /\ lastSolo > 0
        /\ ctx[t].cyc = lastSolo + 1
        /\ Len(visible) = 1
        /\ visible[1].cyc = lastSolo
        /\ Len(ctx[t].fv) = 1
        /\ visible[1].class_id # NoClass
        /\ visible[1].position # NoPos
        /\ ctx[t].fv[1].class_id = visible[1].class_id
        /\ ctx[t].fv[1].position = visible[1].position

\* C5: a query at distance exactly dedup_radius from the only candidate
\* record of its class returns that record's id, and a query farther than
\* dedup_radius from every record of its class returns none
C5_DedupBoundary ==
    \A cls \in ClassIds, pos \in PosSet :
        LET same == {k \in 1..Len(store) : store[k].class_id = cls}
            res  == FindNearbyObject(store, cls, pos, DedupRadius)
        IN  /\ \A k \in same :
                  ( /\ DistSq(pos, store[k].pos) = Sq(DedupRadius)
                    /\ \A j \in same \ {k} :
                          DistSq(pos, store[j].pos) > Sq(DedupRadius) )
                  => res = store[k].object_id
            /\ (\A k \in same : DistSq(pos, store[k].pos) > Sq(DedupRadius))
                  => res = NoId

\* C6: while the detector is running and no stop() is in progress, no step
\* spawns a loop context or clears the cancellation flag, so a start() call
\* changes nothing
C6_StartIdempotent ==
    [][/\ (Running /\ ctl = "idle")
          => /\ \A t \in Contexts : ctx[t].pc = "unborn" => ctx'[t].pc = "unborn"
             /\ stop_event => stop_event'
             /\ thread' = thread
       /\ (~lastStartNoop /\ lastStartNoop')
          => /\ Running
             /\ UNCHANGED <<ctx, stop_event, thread, ctl, store, visible>>
      ]_vars

\* start() was called while the detector was running, with a context left to
\* spawn
C6_Witness ==
    /\ lastStartNoop
    /\ Running
    /\ \E t \in Contexts : ctx[t].pc = "unborn"

\* C7: after a stop() whose join succeeded, and until the next start(), the
\* detector reports not running and no cycle is begun, no record is written
\* and the snapshot is not replaced
C7_QuietAfterStop ==
    /\ [](joinOutcome = "joined" => ~Running)
    /\ [][(joinOutcome = "joined" /\ joinOutcome' = "joined")
             => cycles' = cycles /\ store' = store /\ visible' = visible]_vars

\* ------------------------------------------------------------------------
\* Properties of the navigation loops
\* ------------------------------------------------------------------------
\* the calling context of follow_person is inside its while loop
InTickLoop == f_pc \in {"loop", "capture", "detect", "locate", "go_to", "no_person"}

\* C8: once the stop flag is set, the main loop starts no further tick,
\* issues at most one more go_to, and leaves the tick loop
C8_CancellationLiveness ==
    /\ [][f_stop => ~(f_pc = "loop" /\ f_pc' = "capture")]_vars
    /\ [](f_gotosAfterSet <= 1)
    /\ ((f_stop /\ InTickLoop) ~> ~InTickLoop)

\* the flag was set in the middle of a tick, the tick issued its go_to and
\* the loop was left
C8_Witness ==
    /\ f_stop
    /\ f_gotosAfterSet = 1
    /\ f_pc = "final_stop"

\* "stop" occurs in t, whatever the case of its letters
SaysStop(t) ==
    \E k \in 1..Len(t) :
        /\ k + 3 <= Len(t)
        /\ t[k] \in {"s", "S"}
        /\ t[k + 1] \in {"t", "T"}
        /\ t[k + 2] \in {"o", "O"}
        /\ t[k + 3] \in {"p", "P"}

\* C9: when a listen call returns a transcript, the listener sets the flag
\* and ends if the transcript contains "stop" in any letter case, and
\* otherwise leaves the flag as it is and goes back to its loop condition,
\* from where it listens again while the flag is unset
C9_VoiceCancellation ==
    [][/\ (l_pc = "listen" /\ l_pc' \notin {"listen", "backoff"})
          => /\ SaysStop(text') => (f_stop' /\ l_pc' = "done")
             /\ ~SaysStop(text') => (f_stop' = f_stop /\ l_pc' = "check")
       /\ (l_pc = "check" /\ l_pc' # "check" /\ ~f_stop) => l_pc' = "listen"
      ]_vars

\* the listener ended on a transcript that has "stop" in mixed case
C9_Witness ==
    /\ l_pc = "done"
    /\ f_stop
    /\ text = <<"n", "o", "n", "S", "t", "O", "p", "!">>

FollowEnded   == f_pc \in {"returned_ok", "returned_err", "raised"}
ApproachEnded == a_pc \in {"returned_timeout", "returned_arrived", "returned_err", "raised"}

\* C10: when follow_person or go_to_raised_hand has ended, the last
\* navigation command the call issued is a stop
C10_StopBeforeEnding ==
    /\ FollowEnded => f_lastCmd = "stop"
    /\ ApproachEnded => a_lastCmd = "stop"

\* both calls ended with an error after having issued a go_to
C10_Witness ==
    /\ f_pc = "returned_err"
    /\ f_everGoTo
    /\ a_pc = "returned_err"
    /\ a_everGoTo

\* C11: a call in which a tick raised ends with the returned error status,
\* never with an exception leaving follow_person; and the "stopped as
\* requested" status is returned only when the listener set the flag
C11_FollowResultStatus ==
    /\ (FollowEnded /\ f_cause # "none") => f_pc = "returned_err"
    /\ f_pc = "returned_ok" => (f_setBy = "listener" /\ f_cause = "none")

\* C12: a tick in which capture, detect_objects or estimate_poses raises is
\* carried on as a tick without detections: the loop goes on to its
\* no-detection branch or to the next tick
C12_PerceptionNotFatal ==
    [][/\ (f_pc \in {"capture", "detect"} /\ f_cause' # f_cause)
          => f_pc' \in {"no_person", "loop"}
       /\ (a_pc \in {"capture", "estimate"} /\ a_cause' # a_cause)
          => a_pc' \in {"no_hand", "time_check"}
      ]_vars

C14_TimeoutMeaning == a_pc = "returned_timeout" => ~a_everRaised

\* the square of the planar distance between target and robot of a tick
LocDistSq(loc) == Sq(loc.r[1] - loc.t[1]) + Sq(loc.r[2] - loc.t[2])

\* C15: the success result is returned only in a tick whose target is at
\* most APPROACH_DISTANCE away and that issued a stop and no go_to; a tick
\* whose target is farther away issues one go_to and nothing else, and then
\* the next tick begins (unless the go_to raised)
C15_ApproachArrival ==
    /\ [](a_pc = "returned_arrived"
            => /\ a_loc # NoLoc
               /\ LocDistSq(a_loc) <= 70 * 70
               /\ a_tick = <<Cmd("stop", NoGoal)>>)
    /\ []((a_pc = "time_check" /\ a_loc # NoLoc)
            => /\ LocDistSq(a_loc) > 70 * 70
               /\ Len(a_tick) = 1
               /\ a_tick[1].cmd = "go_to")
    /\ [][/\ (a_pc = "locate" /\ a_loc' # NoLoc /\ LocDistSq(a_loc') > 70 * 70)
             => a_pc' = "go_to"
          /\ (a_pc = "go_to" /\ a_pc' # "go_to")
             => /\ Len(a_tick') = 1
                /\ a_tick'[1].cmd = "go_to"
                /\ (a_pc' = "time_check" \/ a_cause' = "go_to")
         ]_vars

\* the call arrived at a target exactly APPROACH_DISTANCE away, in a
\* direction off the axes, after an earlier tick had issued a go_to
C15_Witness ==
    /\ a_pc = "returned_arrived"
    /\ a_everGoTo
    /\ a_loc # NoLoc
    /\ a_loc.t = <<42, 56>>

\* keypoint i (Python index) of a pose
Kp(kpts, i) == kpts[i + 1]

\* the pair (wrist w, shoulder s) shows a raised hand
PairRaised(kpts, w, s) ==
    /\ Kp(kpts, w).confidence >= 50
    /\ Kp(kpts, s).confidence >= 50
    /\ Kp(kpts, w).y < Kp(kpts, s).y

\* C16: for a pose of 17 keypoints the result is true exactly when the left
\* pair (9, 5) or the right pair (10, 6) shows a raised hand; left wrist
\* y = 100 under shoulder y = 200 at confidence 0.9 gives true, and wrist
\* y = 250 gives false
C16_RaisedHandPredicate ==
    (calc.op = "has_raised_hand" /\ Len(calc.kpts) = 17)
        => /\ calc.out = (PairRaised(calc.kpts, 9, 5) \/ PairRaised(calc.kpts, 10, 6))
           /\ calc.kpts = PoseOf([confidence |-> 90, y |-> 200], [confidence |-> 90, y |-> 200],
                                 [confidence |-> 90, y |-> 100], [confidence |-> 90, y |-> 250])
                => calc.out = TRUE
           /\ calc.kpts = PoseOf([confidence |-> 90, y |-> 200], [confidence |-> 90, y |-> 200],
                                 [confidence |-> 90, y |-> 250], [confidence |-> 90, y |-> 250])
                => calc.out = FALSE

\* a pose whose right hand alone is raised was given and found raised
C16_Witness ==
    /\ calc.op = "has_raised_hand"
    /\ Len(calc.kpts) = 17
    /\ calc.out = TRUE
    /\ ~PairRaised(calc.kpts, 9, 5)
    /\ Kp(calc.kpts, 10).confidence = 50
    /\ Kp(calc.kpts, 6).confidence = 50

\* 1000 * cos(h) and 1000 * sin(h) for the headings used
CosMilli(h) ==
    LET a == Abs(h)
    IN  CASE a = 0     -> 1000
          [] a = 6435  -> 800
          [] a = 9273  -> 600
          [] a = 15708 -> 0
          [] a = 22143 -> 0 - 600
          [] a = 24981 -> 0 - 800
          [] a = 31416 -> 0 - 1000

SinMilli(h) ==
    LET a == Abs(h)
        v == CASE a = 0     -> 0
               [] a = 6435  -> 600
               [] a = 9273  -> 800
               [] a = 15708 -> 1000
               [] a = 22143 -> 800
               [] a = 24981 -> 600
               [] a = 31416 -> 0
    IN  IF h < 0 THEN 0 - v ELSE v

\* goal g for target t and robot r: at the standoff from the target, on
\* the ray from the target through the robot, heading along robot -> target
GoodGoal(g, t, r) ==
    LET gx == g.x - t[1]
        gy == g.y - t[2]
        dx == r[1] - t[1]
        dy == r[2] - t[2]
        c  == CosMilli(g.heading)
        sn == SinMilli(g.heading)
    IN  /\ Sq(gx) + Sq(gy) = 70 * 70
        /\ gx * dy = gy * dx
        /\ gx * dx + gy * dy > 0
        /\ c * (0 - dy) = sn * (0 - dx)
        /\ c * (0 - dx) + sn * (0 - dy) > 0

\* C17: for target and robot at distance d > 0 the goal of the follow loop,
\* and the goal of the approach loop whenever it computes one, is at 0.7 m
\* from the target on the line toward the robot, with the heading pointing
\* from the robot to the target; target (5, 0) and robot (0, 0) give the
\* goal (4.3, 0) with heading 0
C17_GoalOffset ==
    /\ calc.op = "follow_goal"
          => /\ calc.r # calc.t => calc.out # NoGoal
             /\ calc.out # NoGoal => GoodGoal(calc.out, calc.t, calc.r)
             /\ (calc.t = <<500, 0>> /\ calc.r = <<0, 0>>)
                   => calc.out = [x |-> 430, y |-> 0, heading |-> 0]
    /\ calc.op = "approach_goal"
          => /\ calc.out # NoGoal => GoodGoal(calc.out, calc.t, calc.r)
             /\ (calc.t = <<500, 0>> /\ calc.r = <<0, 0>>)
                   => calc.out = [x |-> 430, y |-> 0, heading |-> 0]

\* a goal was computed for a robot 5 m from the target in an oblique
\* direction
C17_Witness ==
    /\ calc.op = "approach_goal"
    /\ calc.t = <<0 - 120, 250>>
    /\ calc.r = <<180, 0 - 150>>
    /\ calc.out = [x |-> 0 - 78, y |-> 194, heading |-> 22143]

\* ------------------------------------------------------------------------
\* Properties of the teleoperation handler
\* ------------------------------------------------------------------------
\* the step is a call of start() or stop()
TeleopCalls(op) == t_calls' = t_calls + 1 /\ t_call'.op = op

\* C18: start() on a handler that is Active returns the already-running
\* message, captures no reference pose, makes no transport operation and
\* leaves is_running, session, subscriber and reference poses as they were
C18_TeleopStartNoop ==
    [][(TeleopCalls("start") /\ t_running)
          => /\ t_call'.ret = "already running"
             /\ t_call'.captures = 0
             /\ t_call'.ops = <<>>
             /\ UNCHANGED <<t_running, t_session, t_sub, t_initial, t_open, t_subs>>
      ]_vars

\* start() was called on an Active handler whose subscriber is registered
C18_Witness ==
    /\ t_call.op = "start"
    /\ t_call.wasRunning
    /\ t_call.ret = "already running"
    /\ t_running
    /\ t_sub \in t_subs

\* C19: stop() on a handler that is Idle makes no transport operation and
\* leaves the handler Idle
C19_TeleopStopIdempotent ==
    [][(TeleopCalls("stop") /\ ~t_running)
          => /\ t_call'.ops = <<>>
             /\ ~t_running'
      ]_vars

\* C20: handling a message whose group name is missing, null or not one of
\* the controlled groups issues no inverse-kinematics command and leaves
\* is_running, session, subscriber and reference poses as they were
C20_TeleopGroupFilter ==
    [][(t_lpc = "handling" /\ t_lpc' = "idle" /\ t_msg.group \notin EeGroups)
          => /\ t_ik' = t_ik
             /\ UNCHANGED <<t_running, t_session, t_sub, t_initial, t_open, t_subs>>
      ]_vars

\* C21: an exception raised while the listener handles a message (a payload
\* that is not JSON, a missing field, a failing go_to_pose_quaternion) is
\* caught in the listener: is_running, session, subscriber, the registered
\* subscription and the reference poses stay as they were, and a well-formed
\* message of a controlled group handled after a fault issues its command
C21_TeleopFaultIsolation ==
    [][/\ (t_faults' > t_faults)
            => /\ t_lpc' = "idle"
               /\ UNCHANGED <<t_running, t_session, t_sub, t_initial, t_open, t_subs>>
       /\ (/\ t_lpc = "handling"
           /\ t_lpc' = "idle"
           /\ t_faults >= 1
           /\ t_msg.kind = "ok"
           /\ t_msg.group \in EeGroups)
            => /\ t_ik' = t_ik + 1
               /\ t_lastIk' = t_msg.group
      ]_vars

\* the listener caught an exception, and a later message produced a command
\* on the handler still Active with its subscriber registered
C21_Witness ==
    /\ t_faults >= 1
    /\ t_outcome = "ik"
    /\ t_running
    /\ t_sub \in t_subs
    /\ t_lastIk = t_msg.group

\* the turn of v by the unit quaternion q, from the rotation matrix of q
\* (components doubled, so the matrix entries are four times too large)
MatrixTurn4(v, q) ==
    LET x == q[1]
        y == q[2]
        z == q[3]
        w == q[4]
    IN  << (w*w + x*x - y*y - z*z) * v[1] + 2 * (x*y - w*z) * v[2] + 2 * (x*z + w*y) * v[3],
           2 * (x*y + w*z) * v[1] + (w*w - x*x + y*y - z*z) * v[2] + 2 * (y*z - w*x) * v[3],
           2 * (x*z - w*y) * v[1] + 2 * (y*z + w*x) * v[2] + (w*w - x*x - y*y + z*z) * v[3] >>

\* the squared norm of a doubled quaternion (4 for a unit quaternion)
Norm4(q) == q[1]*q[1] + q[2]*q[2] + q[3]*q[3] + q[4]*q[4]

\* C22: composing three poses gives the same pose whichever pair is composed
\* first; the composed pose has the parent's translation plus the child's
\* translation turned by the parent's rotation, and a unit rotation
C22_ComposeAssociative ==
    calc.op = "compose"
        => /\ calc.left = calc.right
           /\ LET turned == MatrixTurn4(SubSeq(calc.b, 1, 3), SubSeq(calc.a, 4, 7))
              IN  \A k \in 1..3 : 4 * (calc.ab[k] - calc.a[k]) = turned[k]
           /\ Norm4(SubSeq(calc.ab, 4, 7)) = 4
           /\ Norm4(SubSeq(calc.left, 4, 7)) = 4

\* three poses with rotations that do not commute and translations that the
\* rotations move were composed
C22_Witness ==
    /\ calc.op = "compose"
    /\ ComposeTransforms(calc.a, calc.b) # ComposeTransforms(calc.b, calc.a)
    /\ ComposeTransforms(calc.b, calc.c) # ComposeTransforms(calc.c, calc.b)
    /\ SubSeq(calc.ab, 4, 7) \notin {SubSeq(calc.a, 4, 7), SubSeq(calc.b, 4, 7)}
    /\ SubSeq(calc.left, 1, 3) # <<calc.a[1] + calc.b[1] + calc.c[1],
                                   calc.a[2] + calc.b[2] + calc.c[2],
                                   calc.a[3] + calc.b[3] + calc.c[3]>>

\* C23: an id returned by find_nearby_object names a record of the requested
\* class that lies within the radius of the query position, with no record
\* of that class strictly closer; nothing is returned when the collection
\* has no record of the class
C23_FindNearbyResult ==
    calc.op = "find_nearby"
        => LET st == calc.st
               d2(k) == DistSq(calc.pos, st[k].pos)
           IN  /\ calc.out # NoId
                    => \E k \in 1..Len(st) :
                          /\ st[k].object_id = calc.out
                          /\ st[k].class_id = calc.cls
                          /\ d2(k) <= Sq(calc.radius)
                          /\ \A j \in 1..Len(st) :
                                st[j].class_id = calc.cls => d2(j) >= d2(k)
               /\ (\A k \in 1..Len(st) : st[k].class_id # calc.cls) => calc.out = NoId

\* the lookup returned a record although a record of another class is
\* strictly closer and a second record of the class is within the radius
C23_Witness ==
    /\ calc.op = "find_nearby"
    /\ calc.out # NoId
    /\ \E k, j, o \in 1..Len(calc.st) :
          /\ calc.st[k].object_id = calc.out
          /\ calc.st[o].class_id # calc.cls
          /\ DistSq(calc.pos, calc.st[o].pos) < DistSq(calc.pos, calc.st[k].pos)
          /\ j # k
          /\ calc.st[j].class_id = calc.cls
          /\ DistSq(calc.pos, calc.st[j].pos) < Sq(calc.radius)
          /\ DistSq(calc.pos, calc.st[j].pos) > DistSq(calc.pos, calc.st[k].pos)

\* the detections the last whole cycle kept
RunFiltered == FilterSeq(run.in.detected, CONFIDENCE_THRESHOLD)

\* the last whole cycle located its detections and processed them all
RunCompleted == run.in.stage = "located" /\ run.in.fault = NoFault

\* record k of the store the cycle started from is of class cls and closer
\* than the dedup radius to position p
NearAtStart(k, cls, p) ==
    /\ run.store0[k].class_id = cls
    /\ WithinRadius(DistSq(p, run.store0[k].pos), DedupRadius)

\* C24: when a cycle keeps two detections of one class and both are within
\* the dedup radius of the same record of the store the cycle started from
\* (and of no other record of the class), both snapshot entries carry that
\* record's id, the store has no more records than before, and the record
\* holds the position of the second detection
C24_SameCycleTie ==
    (/\ RunCompleted
     /\ Len(RunFiltered) = 2
     /\ RunFiltered[1].class_id # NoClass
     /\ RunFiltered[1].class_id = RunFiltered[2].class_id)
        => \A k \in 1..Len(run.store0) :
              (/\ NearAtStart(k, RunFiltered[1].class_id, run.in.positions[1])
               /\ NearAtStart(k, RunFiltered[1].class_id, run.in.positions[2])
               /\ \A j \in 1..Len(run.store0) :
                     j # k => /\ ~NearAtStart(j, RunFiltered[1].class_id, run.in.positions[1])
                              /\ ~NearAtStart(j, RunFiltered[1].class_id, run.in.positions[2]))
                  => /\ visible[1].object_id = run.store0[k].object_id
                     /\ visible[2].object_id = run.store0[k].object_id
                     /\ Len(store) = Len(run.store0)
                     /\ store[k].object_id = run.store0[k].object_id
                     /\ store[k].pos = run.in.positions[2]

\* the places in the detected list of the last whole cycle whose confidence
\* is present and at least the threshold, and the j-th of them
KeptIdx ==
    {k \in 1..Len(run.in.detected) :
        /\ run.in.detected[k].confidence # NoConf
        /\ run.in.detected[k].confidence >= CONFIDENCE_THRESHOLD}

NthKept(j) == CHOOSE k \in KeptIdx : Cardinality({m \in KeptIdx : m < k}) = j - 1

\* the snapshot has one entry for each kept detection, in order, with that
\* detection's class and confidence
SnapshotOfKept ==
    /\ Len(visible) = Cardinality(KeptIdx)
    /\ \A j \in 1..Len(visible) :
          /\ visible[j].class_id = run.in.detected[NthKept(j)].class_id
          /\ visible[j].confidence = run.in.detected[NthKept(j)].confidence

\* C25: a cycle in which bboxes_to_positions returns None publishes one
\* entry for each detection that passed the confidence filter, each without
\* position and object_id, and leaves the store as it was
C25_LocalizationTimeout ==
    run.in.stage = "locate_none"
        => /\ SnapshotOfKept
           /\ \A j \in 1..Len(visible) :
                 visible[j].position = NoPos /\ visible[j].object_id = NoId
           /\ store = run.store0

\* localization timed out in a cycle that detected two objects and kept one
\* of them, on a store that has a record and a snapshot that had positions
C25_Witness ==
    /\ run.in.stage = "locate_none"
    /\ Len(run.in.detected) = 2
    /\ Len(visible) = 1
    /\ store # <<>>
    /\ run.visible0 # <<>>
    /\ run.visible0[1].position # NoPos

\* C26: a cycle that gets as far as publishing keeps exactly the detections
\* whose confidence is present and at least the threshold (an equal one is
\* kept); a cycle whose detection returns nothing or in which none is kept
\* replaces the snapshot by the empty list and leaves the store as it was
C26_ConfidenceFilter ==
    /\ (run.in.stage = "locate_none" \/ RunCompleted) => SnapshotOfKept
    /\ (run.in.stage \in {"detected", "locate_raised", "locate_none", "located"}
            /\ KeptIdx = {})
          => /\ visible = <<>>
             /\ store = run.store0

\* a cycle detected one object below the threshold and one exactly at it,
\* and published the second alone
C26_Witness ==
    /\ RunCompleted
    /\ Len(run.in.detected) = 2
    /\ run.in.detected[1].confidence = CONFIDENCE_THRESHOLD - 1
    /\ run.in.detected[2].confidence = CONFIDENCE_THRESHOLD
    /\ Len(visible) = 1
    /\ visible[1].confidence = CONFIDENCE_THRESHOLD
    /\ run.visible0 # <<>>

\* C27: a cycle whose capture fails leaves the snapshot and the store as
\* they were
C27_CaptureFailureSkips ==
    [][\A t \in Contexts :
          (ctx[t].pc = "capture" /\ ctx'[t].pc = "check")
             => /\ visible' = visible
                /\ store' = store
                /\ nextId' = nextId
      ]_vars

\* the second cycle of the only context failed in capture, with a snapshot
\* published and a record stored by the first
C27_Witness ==
    /\ ctx[1].pc = "check"
    /\ ctx[2].pc = "unborn"
    /\ cycles = 2
    /\ ctx[1].cyc = 1
    /\ visible # <<>>
    /\ store # <<>>

\* C28: no step of a context inside a cycle, raising or not, ends the
\* context; the context ends only at the loop condition with the stop event
\* set, and with the event clear its next step after the wait begins a new
\* cycle; the detector stays Running while stop has not been signalled
C28_LoopSurvives ==
    [][/\ \A t \in Contexts :
             /\ (ctx[t].pc = "capture" \/ InCycle(ctx[t].pc))
                   => ctx'[t].pc \notin {"done", "unborn"}
             /\ (ctx[t].pc = "check" /\ ctx'[t].pc # "check")
                   => ctx'[t].pc = IF stop_event THEN "done" ELSE "capture"
       /\ (Running /\ ~stop_event) => Running'
      ]_vars

\* the first cycle of the only context stored a record and raised before it
\* published; the context is in its second cycle and the detector is Running
C28_Witness ==
    /\ ctx[1].pc = "detect"
    /\ ctx[1].cyc = 2
    /\ ctx[2].pc = "unborn"
    /\ store # <<>>
    /\ visible = <<>>
    /\ Running
    /\ ~stop_event

\* C29: no step removes an object_id from the store, and the upsert of a
\* detection that matched a record replaces that record in place, under the
\* same id and with the detection's position, without adding a record
C29_InPlaceNeverDeleted ==
    [][/\ \A k \in 1..Len(store) : HasId(store', store[k].object_id)
       /\ \A t \in Contexts :
             (/\ ctx[t].pc = "upsert"
              /\ ctx'[t].pc \in {"find", "publish"}
              /\ HasId(store, ctx[t].oid))
                => /\ Len(store') = Len(store)
                   /\ \A k \in 1..Len(store) :
                         IF store[k].object_id = ctx[t].oid
                         THEN /\ store'[k].object_id = ctx[t].oid
                              /\ store'[k].pos = ctx[t].pos
                         ELSE store'[k] = store[k]
      ]_vars

\* a detection of the second cycle matched the only record and moved it:
\* the snapshot of the first cycle still shows the record's old position
C29_Witness ==
    /\ Len(store) = 1
    /\ visible # <<>>
    /\ visible[1].object_id = store[1].object_id
    /\ visible[1].position # store[1].pos
    /\ \E t \in Contexts :
          /\ ctx[t].cyc = 2
          /\ Len(ctx[t].fv) >= 1
          /\ ctx[t].fv[1].object_id = store[1].object_id
          /\ ctx[t].fv[1].position = store[1].pos

\* C30: a listen call that raises leaves the stop event and the calling
\* context as they are and does not end the listener; after the pause the
\* listener is at its loop condition again and listens again while the event
\* is clear; the listener ends only with the event set; while the listener
\* pauses the calling context inside its tick loop can take its next step
C30_ListenerErrorsIsolated ==
    [][/\ (l_pc = "listen" /\ l_pc' = "backoff")
            => UNCHANGED <<f_stop, f_pc, f_setBy>>
       /\ (l_pc = "backoff" /\ InTickLoop) => ENABLED FollowMain
       /\ (l_pc = "backoff" /\ l_pc' # "backoff")
            => /\ l_pc' = "check"
               /\ UNCHANGED <<f_stop, f_pc, f_setBy>>
       /\ (l_pc = "check" /\ l_pc' # "check")
            => l_pc' = IF f_stop THEN "done" ELSE "listen"
       /\ (l_pc # "done" /\ l_pc' = "done") => f_stop'
      ]_vars

\* the listener is pausing after a failed listen call while the calling
\* context, which has already sent a goal, is about to send the next one
\* and the stop event is clear
C30_Witness ==
    /\ l_pc = "backoff"
    /\ f_pc = "go_to"
    /\ f_everGoTo
    /\ ~f_stop

\* width * height of an (x1, y1, x2, y2) box
BoxArea(b) == (b[3] - b[1]) * (b[4] - b[2])

\* C32: the tracking target of a follow tick is a detection of class
\* "person" whose bounding-box area (x2 - x1) * (y2 - y1) is largest among
\* the persons of the tick
C32_TargetSelection ==
    calc.op = "pick_target"
        => /\ \E k \in 1..Len(calc.persons) : calc.persons[k] = calc.out
           /\ \A k \in 1..Len(calc.persons) :
                 BoxArea(calc.persons[k].bbox) <= BoxArea(calc.out.bbox)

\* ------------------------------------------------------------------------
\* C31: a follow_person tick in which no person is visible, and a
\* go_to_raised_hand tick in which no pose has a raised hand, issues exactly
\* the command stop and no go_to; when the stop call returns the loop goes on
\* to its next loop test, which starts the next tick unless the session was
\* cancelled (follow_person) or the deadline passed (go_to_raised_hand).  A
\* stop call that raises is the only other way out of the branch.
\* ------------------------------------------------------------------------
StopOnly == <<Cmd("stop", NoGoal)>>

C31_NoTargetStops ==
    [][ /\ (f_pc = "no_person" /\ f_pc' # "no_person") =>
              /\ f_tick = <<>>
              /\ f_tick' = StopOnly
              /\ \/ f_pc' = "loop"
                 \/ f_pc' = "exc_stop" /\ f_cause' = "stop"
        /\ (f_pc = "loop" /\ f_pc' # "loop" /\ ~f_stop) => f_pc' = "capture"
        /\ (a_pc = "no_hand" /\ a_pc' # "no_hand") =>
              /\ a_tick = <<>>
              /\ a_tick' = StopOnly
              /\ \/ a_pc' = "time_check"
                 \/ a_pc' = "exc_stop" /\ a_cause' = "stop"
        /\ (a_pc = "time_check" /\ a_pc' # "time_check" /\ ~a_deadline) =>
              a_pc' = "capture"
      ]_vars

\* both loops are back at their loop test after a tick that only stopped, with
\* the session still live; follow_person had a goal active before
C31_Witness ==
    /\ f_pc = "loop" /\ f_tick = StopOnly /\ f_everGoTo /\ ~f_stop
    /\ a_pc = "time_check" /\ a_tick = StopOnly /\ ~a_deadline

\* ------------------------------------------------------------------------
\* C33: continuous pursuit.  As stated: every follow_person tick in which a
\* person is visible and which reaches the sleep at its end has issued
\* exactly one go_to, non-blocking.
\* ------------------------------------------------------------------------
C33_GoToEveryTick ==
    [][ (f_pc \in {"locate", "go_to"} /\ f_pc' = "loop") =>
            /\ Len(f_tick') = 1
            /\ f_tick'[1].cmd = "go_to"
            /\ ~f_tick'[1].blocking
      ]_vars

\* C33 as the code has it: in a tick in which a person is visible, the
\* positions of person and robot are read first, with no command issued; a
\* failing read ends the loop through the handler; a person exactly where the
\* robot stands (dist = 0) gets no command in that tick; any other person gets
\* exactly one go_to, for the goal computed from the two positions, with
\* blocking disabled, after which the loop goes on to its next test unless the
\* call raised.
C33_GoToWhenApart ==
    [][ /\ (f_pc = "locate" /\ f_pc' # "locate") =>
              /\ f_tick' = <<>>
              /\ \/ f_pc' = "exc_stop" /\ f_cause' = "locate"
                 \/ f_loc' # NoLoc /\ f_loc'.t = f_loc'.r /\ f_pc' = "loop"
                 \/ f_loc' # NoLoc /\ f_loc'.t # f_loc'.r /\ f_pc' = "go_to"
        /\ (f_pc = "go_to" /\ f_pc' # "go_to") =>
              /\ FollowGoal(f_loc.t, f_loc.r) # NoGoal
              /\ f_tick' = << [cmd |-> "go_to",
                               goal |-> FollowGoal(f_loc.t, f_loc.r),
                               blocking |-> FALSE] >>
              /\ \/ f_pc' = "loop"
                 \/ f_pc' = "exc_stop" /\ f_cause' = "go_to"
      ]_vars

\* a tick that followed a person 5 m away has ended with its one go_to, the
\* session still live
C33_Witness ==
    /\ f_pc = "loop"
    /\ ~f_stop
    /\ f_loc = [t |-> <<300, 400>>, r |-> <<0, 0>>]
    /\ Len(f_tick) = 1
    /\ f_tick[1].cmd = "go_to"
    /\ f_tick[1].goal # NoGoal

Cycling == {t \in Contexts : ctx[t].pc = "capture" \/ InCycle(ctx[t].pc)}

C35_SingleContext == Cardinality(Cycling) <= 1

\* ------------------------------------------------------------------------
\* C36: whenever a follow_person call has ended, by return or by an exception
\* leaving it, the cancellation flag of its session is set, and the listener
\* begins no listen call after that.
\* ------------------------------------------------------------------------
C36_NoLeakedListener ==
    [][ /\ FollowEnded' => f_stop'
        /\ FollowEnded => ~(l_pc # "listen" /\ l_pc' = "listen")
      ]_vars

\* ------------------------------------------------------------------------
\* C37: once stop() has returned and until the next start() call, no
\* go_to_pose_quaternion command is issued, whatever messages were delivered
\* or were being handled while stop() ran.
\* ------------------------------------------------------------------------
C37_QuietAfterTeleopStop ==
    [][ (t_call.op = "stop" /\ t_call.ret = "stopped" /\ t_calls' = t_calls)
            => t_ik' = t_ik
      ]_vars

\* ------------------------------------------------------------------------
\* C38: a start() that ends with an exception (zenoh.open or
\* declare_subscriber raised) leaves the handler Idle: is_running is false
\* and no session opened by the call stays open, so that the next start() is
\* not answered with "already running".
\* ------------------------------------------------------------------------
C38_StartFailureLeavesIdle ==
    [][ /\ (TeleopCalls("start") /\ t_call'.ret = "raised")
              => /\ ~t_running'
                 /\ t_open' \subseteq t_open
        /\ (TeleopCalls("start") /\ t_call.op = "start" /\ t_call.ret = "raised")
              => t_call'.ret # "already running"
      ]_vars

\* ------------------------------------------------------------------------
\* C39: a detection without a class_id is never matched to a stored record:
\* its dedup decision always draws a fresh object_id, held by no record, and
\* its upsert adds one record at the end of the store and changes no other.
\* ------------------------------------------------------------------------
ClasslessAt(t) ==
    /\ ctx[t].pc \in {"find", "upsert"}
    /\ ctx[t].filtered[ctx[t].i].class_id = NoClass

C39_ClasslessNeverDeduplicated ==
    [][ \A t \in Contexts :
          /\ (ClasslessAt(t) /\ ctx[t].pc = "find" /\ ctx'[t].pc = "upsert") =>
                /\ ctx'[t].oid = nextId
                /\ nextId' = nextId + 1
                /\ ~HasId(store, ctx'[t].oid)
          /\ (ClasslessAt(t) /\ ctx[t].pc = "upsert" /\ ctx'[t].pc \in {"find", "publish"}) =>
                /\ ~HasId(store, ctx[t].oid)
                /\ Len(store') = Len(store) + 1
                /\ SubSeq(store', 1, Len(store)) = store
                /\ store'[Len(store')].object_id = ctx[t].oid
                /\ store'[Len(store')].class_id = NoClass
      ]_vars

\* the same class-less object, seen at the same place in two cycles, is in
\* the store twice
C39_Witness ==
    \E j, k \in 1..Len(store) :
        /\ j < k
        /\ store[j].class_id = NoClass
        /\ store[k].class_id = NoClass
        /\ store[j].pos = store[k].pos
        /\ store[j].object_id # store[k].object_id
        /\ cycles >= 2

\* ------------------------------------------------------------------------
\* C40: whenever the lock of BackgroundVisionMonitor is free (the states a
\* reader of latest_result or last_updated can see), latest_result is
\* non-empty exactly when last_updated is set.  Both are written only by the
\* context that holds the lock; when it leaves the lock latest_result is the
\* string of its cycle and last_updated a new timestamp.  A cycle that
\* raises changes neither and leaves its context in the loop, at the wait
\* before the next loop test.
\* ------------------------------------------------------------------------
MonitorConsistent == m_lock = 0 => (m_latest # <<>> <=> m_updated # NoTime)

C40_MonitorConsistency ==
    /\ []MonitorConsistent
    /\ [][ /\ (m_latest' # m_latest \/ m_updated' # m_updated) =>
                  /\ m_lock \in Contexts
                  /\ m_ctx[m_lock].pc \in {"store_result", "store_time"}
            /\ \A t \in Contexts :
                  /\ (m_lock = t /\ m_lock' = 0) =>
                        /\ m_latest' = m_ctx[t].result
                        /\ m_latest' # <<>>
                        /\ m_updated' # NoTime
                        /\ m_updated' > m_updated
                  /\ (m_ctx'[t].failures > m_ctx[t].failures) =>
                        /\ UNCHANGED <<m_latest, m_updated, m_lock>>
                        /\ m_ctx'[t].pc = "wait"
                  /\ (m_ctx[t].pc = "wait" /\ m_ctx'[t].pc # "wait") => m_ctx'[t].pc = "check"
                  /\ (m_ctx[t].pc = "check" /\ m_ctx'[t].pc # "check" /\ ~m_stop) =>
                        m_ctx'[t].pc = "cycle"
          ]_vars

\* a context whose cycle raised after a first result was stored has gone on
\* and replaced result and timestamp; a reader then saw the new timestamp
C40_Witness ==
    /\ \E t \in Contexts : m_ctx[t].failures > 0 /\ m_ctx[t].pc = "wait"
    /\ m_lock = 0
    /\ m_updated = 2
    /\ Len(m_latest) = 3
    /\ m_read = [prop |-> "last_updated", value |-> 2]

=============================================================================
